---- MODULE Spec2Model ----
(***************************************************************************)
(* The person and name forms of the template: the validation and           *)
(* error-formatting pipeline (validatePerson, formatValidationError(s),    *)
(* createChangeDetectionValidator), the session helpers, the name and      *)
(* person controllers, and the axios instance of createApiMiddleware.      *)
(*                                                                         *)
(* submitted is the body as the request arrived with it, body the body as  *)
(* the sanitizers have rewritten it.  previous, accepted and ownName are     *)
(* history variables: the session as the running call found it, the form   *)
(* fields of the last submission that passed validation, and the name each *)
(* client submitted last (the default name before it submitted any).       *)
(*                                                                         *)
(* JavaScript values are tagged records [t |-> type, v |-> payload];       *)
(* JavaScript strings are TLA+ strings, handled character by character.    *)
(***************************************************************************)
EXTENDS Integers, Sequences, FiniteSets, TLC

VARIABLES pc, route, session, submitted, body, mappings, errors, result,
          errorMessage, thunkCalls,
          response, previous, accepted, currentStoredName, client, ownName,
          apiPc, apiConfig, apiError, apiOutcome, clearTokensCalls, devLogs

\* the request in flight and what the middlewares made of it
reqVars == <<pc, route, submitted, body, mappings, errors, errorMessage, thunkCalls>>

\* what the controllers answer with and what they keep between requests
ctlVars == <<response, previous, accepted, currentStoredName, client, ownName>>

\* the axios instance of one request
apiVars == <<apiPc, apiConfig, apiError, apiOutcome, clearTokensCalls, devLogs>>

vars == <<reqVars, session, result, ctlVars, apiVars>>

(***************************************************************************)
(* JavaScript values                                                       *)
(***************************************************************************)
Undef == [t |-> "undefined"]
Null == [t |-> "null"]
S(s) == [t |-> "string", v |-> s]
N(n) == [t |-> "number", v |-> n]
B(b) == [t |-> "boolean", v |-> b]
O(f) == [t |-> "object", v |-> f]
A(q) == [t |-> "array", v |-> q]
\* a function that returns the string r when called: () => r
Fn(r) == [t |-> "function", v |-> r]

EmptyObject == O(<<>>)

\* typeof value === 'string'
IsString(x) == x.t = "string"

\* value === undefined || value === null
IsNullish(x) == x.t \in {"undefined", "null"}

(***************************************************************************)
(* Strings: String.prototype.trim, toLowerCase, padStart, parseInt,        *)
(* String(number)                                                          *)
(***************************************************************************)
WhiteSpace == {" ", "\t", "\n"}
Digits == "0123456789"
UpperCase == "ABCDEFGHIJKLMNOPQRSTUVWXYZ"
LowerCase == "abcdefghijklmnopqrstuvwxyz"

CharAt(s, i) == SubSeq(s, i, i)

RECURSIVE IndexIn(_, _, _)
\* position of character c in string s at or after i, 0 when absent
IndexIn(s, c, i) ==
  IF i > Len(s) THEN 0
  ELSE IF CharAt(s, i) = c THEN i
  ELSE IndexIn(s, c, i + 1)

IsDigit(c) == IndexIn(Digits, c, 1) > 0
DigitVal(c) == IndexIn(Digits, c, 1) - 1

RECURSIVE TrimStart(_)
TrimStart(s) ==
  IF Len(s) = 0 THEN s
  ELSE IF CharAt(s, 1) \in WhiteSpace THEN TrimStart(SubSeq(s, 2, Len(s)))
  ELSE s

RECURSIVE TrimEnd(_)
TrimEnd(s) ==
  IF Len(s) = 0 THEN s
  ELSE IF CharAt(s, Len(s)) \in WhiteSpace THEN TrimEnd(SubSeq(s, 1, Len(s) - 1))
  ELSE s

Trim(s) == TrimEnd(TrimStart(s))

LowerChar(c) ==
  LET i == IndexIn(UpperCase, c, 1)
  IN IF i > 0 THEN CharAt(LowerCase, i) ELSE c

RECURSIVE ToLowerCase(_)
ToLowerCase(s) ==
  IF Len(s) = 0 THEN s
  ELSE LowerChar(CharAt(s, 1)) \o ToLowerCase(SubSeq(s, 2, Len(s)))

RECURSIVE PadStart(_, _, _)
PadStart(s, width, ch) ==
  IF Len(s) >= width THEN s ELSE PadStart(ch \o s, width, ch)

RECURSIVE NatToString(_)
NatToString(n) ==
  IF n < 10 THEN CharAt(Digits, n + 1)
  ELSE NatToString(n \div 10) \o CharAt(Digits, (n % 10) + 1)

\* String(n) for an integer n
NumberToString(n) == IF n < 0 THEN "-" \o NatToString(0 - n) ELSE NatToString(n)

RECURSIVE DigitPrefix(_, _)
\* value of the longest run of digits at the head of s, continuing from acc
DigitPrefix(s, acc) ==
  IF Len(s) = 0 \/ ~IsDigit(CharAt(s, 1)) THEN acc
  ELSE DigitPrefix(SubSeq(s, 2, Len(s)), (acc * 10) + DigitVal(CharAt(s, 1)))

NaN == [nan |-> TRUE, n |-> 0]

\* parseInt(s, 10): optional white space, optional sign, then the longest
\* run of digits; NaN when there is no digit
ParseInt(s) ==
  LET u == TrimStart(s)
      signed == Len(u) > 0 /\ CharAt(u, 1) \in {"+", "-"}
      w == IF signed THEN SubSeq(u, 2, Len(u)) ELSE u
  IN IF Len(w) = 0 \/ ~IsDigit(CharAt(w, 1)) THEN NaN
     ELSE IF signed /\ CharAt(u, 1) = "-"
          THEN [nan |-> FALSE, n |-> 0 - DigitPrefix(w, 0)]
          ELSE [nan |-> FALSE, n |-> DigitPrefix(w, 0)]

RECURSIVE AllDigits(_)
AllDigits(s) ==
  IF Len(s) = 0 THEN TRUE
  ELSE IsDigit(CharAt(s, 1)) /\ AllDigits(SubSeq(s, 2, Len(s)))

RECURSIVE SplitOn(_, _, _)
\* s.split(c), with cur the piece collected so far
SplitOn(s, c, cur) ==
  IF Len(s) = 0 THEN <<cur>>
  ELSE IF CharAt(s, 1) = c THEN <<cur>> \o SplitOn(SubSeq(s, 2, Len(s)), c, "")
  ELSE SplitOn(SubSeq(s, 2, Len(s)), c, cur \o CharAt(s, 1))

(***************************************************************************)
(* dataTransformers: isRecord, hasProperty, safeBodyString,                *)
(* dateStringFromThreeFields                                               *)
(***************************************************************************)
\* typeof value === 'object' && value !== null && !Array.isArray(value)
isRecord(value) == value.t = "object"

isValidRecord(value) == value.t = "object"

hasProperty(obj, key) == isRecord(obj) /\ key \in DOMAIN obj.v

safeBodyString(b, key) == IF hasProperty(b, key) THEN b.v[key] ELSE S("")

DATE_PADDING_WIDTH == 2

\* dateStringFromThreeFields without padStart
dateStringFromThreeFieldsUnpadded(day, month, year) ==
  year \o "-" \o month \o "-" \o day

dateStringFromThreeFields(day, month, year) ==
  LET paddedMonth == PadStart(month, DATE_PADDING_WIDTH, "0")
      paddedDay == PadStart(day, DATE_PADDING_WIDTH, "0")
  IN year \o "-" \o paddedMonth \o "-" \o paddedDay

(***************************************************************************)
(* i18n lookup t(key): the English texts the unit tests expect; a key      *)
(* without a known text is returned as it is.                              *)
(***************************************************************************)
Translations ==
  [k \in {"forms.name.validationError.notEmpty",
          "forms.address.validationError.notEmpty",
          "forms.dateOfBirth.validationError.day.notEmpty",
          "forms.dateOfBirth.validationError.month.notEmpty",
          "forms.dateOfBirth.validationError.year.notEmpty",
          "forms.dateOfBirth.validationError.day.isInt",
          "forms.dateOfBirth.validationError.month.isInt",
          "forms.dateOfBirth.validationError.year.isLength",
          "forms.dateOfBirth.validationError.year.isInt",
          "forms.dateOfBirth.validationError.validDate"} |->
     CASE k = "forms.name.validationError.notEmpty" -> "Enter your full name"
       [] k = "forms.address.validationError.notEmpty" -> "Enter your address"
       [] k = "forms.dateOfBirth.validationError.day.notEmpty" -> "Date of birth must include a day"
       [] k = "forms.dateOfBirth.validationError.month.notEmpty" -> "Date of birth must include a month"
       [] k = "forms.dateOfBirth.validationError.year.notEmpty" -> "Date of birth must include a year"
       [] k = "forms.dateOfBirth.validationError.day.isInt" -> "Day must be a number between 1 and 31"
       [] k = "forms.dateOfBirth.validationError.month.isInt" -> "Month must be a number between 1 and 12"
       [] k = "forms.dateOfBirth.validationError.year.isLength" -> "Year must be 4 numbers"
       [] k = "forms.dateOfBirth.validationError.year.isInt" -> "Year must be a valid number"
       [] k = "forms.dateOfBirth.validationError.validDate" -> "Enter a real date of birth"]

t(key) == IF key \in DOMAIN Translations THEN Translations[key] ELSE key

(***************************************************************************)
(* TypedValidationError and the raw express-validator error                *)
(***************************************************************************)
TypedValidationError(summaryMessage, inlineMessage) ==
  [t |-> "TypedValidationError",
   summaryMessage |-> summaryMessage,
   inlineMessage |-> inlineMessage]

\* new TypedValidationError({summaryMessage: t(key), inlineMessage: t(key)})
TypedMessage(key) == TypedValidationError(t(key), t(key))

\* a 'field' error as validationResult(req).array() returns it
FieldError(path, msg) == [path |-> path, msg |-> msg]

(***************************************************************************)
(* express-validator: field selection, write-back of sanitized values,     *)
(* string conversion, standard sanitizers and validators                   *)
(***************************************************************************)
\* _.get(req.body, path)
SelectField(b, path) ==
  IF b.t = "object" /\ path \in DOMAIN b.v THEN b.v[path] ELSE Undef

\* _.set(req.body, path, value), done only when the value changed
WriteField(b, path, value) ==
  IF b.t = "object" /\ SelectField(b, path) # value
  THEN O([k \in (DOMAIN b.v) \cup {path} |-> IF k = path THEN value ELSE b.v[k]])
  ELSE b

RECURSIVE JoinStrings(_, _)
JoinStrings(q, sep) ==
  IF Len(q) = 0 THEN ""
  ELSE IF Len(q) = 1 THEN q[1]
  ELSE q[1] \o sep \o JoinStrings(Tail(q), sep)

RECURSIVE JsString(_)
\* String(value)
JsString(x) ==
  CASE x.t = "undefined" -> "undefined"
    [] x.t = "null" -> "null"
    [] x.t = "string" -> x.v
    [] x.t = "number" -> NumberToString(x.v)
    [] x.t = "boolean" -> IF x.v THEN "true" ELSE "false"
    [] x.t = "object" ->
         IF "toString" \in DOMAIN x.v /\ x.v["toString"].t = "function"
         THEN x.v["toString"].v
         ELSE "[object Object]"
    [] x.t = "array" ->
         JoinStrings([i \in 1..Len(x.v) |->
                        IF x.v[i].t \in {"undefined", "null"} THEN "" ELSE JsString(x.v[i])],
                     ",")

\* express-validator's toString: '' for null and undefined, else String(value)
ToStringEV(x) == IF x.t \in {"undefined", "null"} THEN "" ELSE JsString(x)

\* the values a standard validator or sanitizer is applied to
ValuesOf(value) == IF value.t = "array" THEN value.v ELSE <<value>>

\* trim: true
trimSanitizer(value) ==
  LET newValues == [i \in 1..Len(ValuesOf(value)) |-> S(Trim(ToStringEV(ValuesOf(value)[i])))]
  IN IF value.t = "array" THEN A(newValues) ELSE newValues[1]

\* validator.isEmpty(str)
isEmpty(str) == Len(str) = 0

\* validator.isIn(str, options)
isIn(str, options) == str \in options

\* notEmpty: one error for each value whose string form is empty
notEmptyErrors(value, path, msg) ==
  LET failing == SelectSeq(ValuesOf(value), LAMBDA x : isEmpty(ToStringEV(x)))
  IN [i \in 1..Len(failing) |-> FieldError(path, msg)]

\* isIn: one error for each value whose string form is not an option
isInErrors(value, options, path, msg) ==
  LET failing == SelectSeq(ValuesOf(value), LAMBDA x : ~isIn(ToStringEV(x), options))
  IN [i \in 1..Len(failing) |-> FieldError(path, msg)]

\* custom: one error when the validator returns a falsy result
customErrors(passed, path, msg) ==
  IF passed THEN <<>> ELSE <<FieldError(path, msg)>>

(***************************************************************************)
(* validator.isDate(str) with its default options: format YYYY/MM/DD,      *)
(* delimiters '/' and '-', not strict                                      *)
(***************************************************************************)
IsLeapYear(y) == (y % 4 = 0 /\ y % 100 # 0) \/ y % 400 = 0

DaysInMonth(y, m) ==
  IF m = 2 THEN (IF IsLeapYear(y) THEN 29 ELSE 28)
  ELSE IF m \in {4, 6, 9, 11} THEN 30 ELSE 31

\* new Date(`${y}-${m}-${d}T00:00:00.000Z`).getUTCDate() === +d, for a year
\* of four, a month of two and a day of two characters: an invalid Date has
\* no date, and a day past the end of its month rolls over to the next one
utcDateMatches(y, m, d) ==
  /\ AllDigits(y) /\ AllDigits(m) /\ AllDigits(d)
  /\ DigitPrefix(m, 0) \in 1..12
  /\ DigitPrefix(d, 0) \in 1..DaysInMonth(DigitPrefix(y, 0), DigitPrefix(m, 0))

isDate(input) ==
  LET dateDelimiter == IF IndexIn(input, "/", 1) > 0 THEN "/" ELSE "-"
      words == SplitOn(input, dateDelimiter, "")
      format == <<"yyyy", "mm", "dd">>
      zipped == IF Len(words) < Len(format) THEN Len(words) ELSE Len(format)
  IN /\ \A i \in 1..zipped : Len(words[i]) = Len(format[i])
     \* fewer than three words: dateObj.m is undefined and reading its
     \* length throws, which the custom validator reports as a failure
     /\ zipped = Len(format)
     /\ utcDateMatches(words[1], words[2], words[3])

(***************************************************************************)
(* personSchema: date helpers                                              *)
(***************************************************************************)
MIN_DAY == 1
MAX_DAY == 31
MIN_MONTH == 1
MAX_MONTH == 12
YEAR_LENGTH == 4
MIN_COMMUNICATION_METHODS == 1
EMPTY == 0

hasAnyDateField(day, month, year) ==
  \/ Len(Trim(day)) > EMPTY
  \/ Len(Trim(month)) > EMPTY
  \/ Len(Trim(year)) > EMPTY

getDateFields(b) ==
  IF ~isRecord(b) THEN [day |-> "", month |-> "", year |-> ""]
  ELSE LET dayValue == safeBodyString(b, "dateOfBirth-day")
           monthValue == safeBodyString(b, "dateOfBirth-month")
           yearValue == safeBodyString(b, "dateOfBirth-year")
       IN [day |-> IF IsString(dayValue) THEN dayValue.v ELSE "",
           month |-> IF IsString(monthValue) THEN monthValue.v ELSE "",
           year |-> IF IsString(yearValue) THEN yearValue.v ELSE ""]

\* hasPartialDateFields returning true for a body that is not a record
hasPartialDateFieldsInverted(b) ==
  IF ~isRecord(b) THEN TRUE
  ELSE LET f == getDateFields(b) IN hasAnyDateField(f.day, f.month, f.year)

hasPartialDateFields(b) ==
  IF ~isRecord(b) THEN FALSE
  ELSE LET f == getDateFields(b) IN hasAnyDateField(f.day, f.month, f.year)

\* validateDayField with the upper bound excluded
validateDayFieldExclusive(value, b) ==
  LET currentValue == IF IsString(value) THEN Trim(value.v) ELSE ""
      dayNum == ParseInt(currentValue)
  IN IF ~hasPartialDateFields(b) THEN TRUE
     ELSE IF Len(currentValue) = EMPTY THEN FALSE
     ELSE ~dayNum.nan /\ dayNum.n >= MIN_DAY /\ dayNum.n < MAX_DAY

validateDayField(value, b) ==
  LET currentValue == IF IsString(value) THEN Trim(value.v) ELSE ""
      dayNum == ParseInt(currentValue)
  IN IF ~hasPartialDateFields(b) THEN TRUE
     ELSE IF Len(currentValue) = EMPTY THEN FALSE
     ELSE ~dayNum.nan /\ dayNum.n >= MIN_DAY /\ dayNum.n <= MAX_DAY

\* validateMonthField without the test for a date of birth left empty
validateMonthFieldRequired(value, b) ==
  LET currentValue == IF IsString(value) THEN Trim(value.v) ELSE ""
      monthNum == ParseInt(currentValue)
  IN IF Len(currentValue) = EMPTY THEN FALSE
     ELSE ~monthNum.nan /\ monthNum.n >= MIN_MONTH /\ monthNum.n <= MAX_MONTH

validateMonthField(value, b) ==
  LET currentValue == IF IsString(value) THEN Trim(value.v) ELSE ""
      monthNum == ParseInt(currentValue)
  IN IF ~hasPartialDateFields(b) THEN TRUE
     ELSE IF Len(currentValue) = EMPTY THEN FALSE
     ELSE ~monthNum.nan /\ monthNum.n >= MIN_MONTH /\ monthNum.n <= MAX_MONTH

validateYearField(value, b) ==
  LET currentValue == IF IsString(value) THEN Trim(value.v) ELSE ""
      yearNum == ParseInt(currentValue)
  IN IF ~hasPartialDateFields(b) THEN TRUE
     ELSE IF Len(currentValue) = EMPTY THEN FALSE
     ELSE IF Len(currentValue) # YEAR_LENGTH THEN FALSE
     ELSE ~yearNum.nan

createDateValidationError(field, errorType) ==
  TypedMessage("forms.dateOfBirth.validationError." \o field \o "." \o errorType)

\* errorMessage of dateOfBirth-day and dateOfBirth-month
dateErrorMessage(field, value, b) ==
  IF ~isRecord(b) THEN createDateValidationError(field, "notEmpty")
  ELSE LET f == getDateFields(b)
           hasDateFields == hasAnyDateField(f.day, f.month, f.year)
       IN IF hasDateFields /\ (~IsString(value) \/ Len(Trim(value.v)) = EMPTY)
          THEN createDateValidationError(field, "notEmpty")
          ELSE createDateValidationError(field, "isInt")

\* the TypeError of a call of trim on a value that is not a string
TypeError == [t |-> "TypeError"]

\* errorMessage of dateOfBirth-year
yearErrorMessage(value, b) ==
  IF ~isRecord(b) THEN TypedMessage("forms.dateOfBirth.validationError.year.notEmpty")
  ELSE LET f == getDateFields(b)
           hasDateFields == hasAnyDateField(f.day, f.month, f.year)
       IN IF hasDateFields /\ (~IsString(value) \/ Len(Trim(value.v)) = EMPTY)
          THEN createDateValidationError("year", "notEmpty")
          ELSE IF ~IsString(value) THEN TypeError
          ELSE IF IsString(value) /\ Len(Trim(value.v)) > EMPTY
                  /\ Len(Trim(value.v)) # YEAR_LENGTH
          THEN createDateValidationError("year", "isLength")
          ELSE createDateValidationError("year", "isInt")

\* validDateOptions without the test for a missing date field
validDateOptionsNoMissing(b) ==
  IF ~isRecord(b) THEN TRUE
  ELSE LET f == getDateFields(b)
           dayTrimmed == Trim(f.day)
           monthTrimmed == Trim(f.month)
           yearTrimmed == Trim(f.year)
       IN IF Len(dayTrimmed) = EMPTY /\ Len(monthTrimmed) = EMPTY /\ Len(yearTrimmed) = EMPTY
          THEN TRUE
          ELSE isDate(dateStringFromThreeFields(dayTrimmed, monthTrimmed, yearTrimmed))

\* validDateOptions without the call of validator.isDate
validDateOptionsUnchecked(b) == TRUE

\* options of validDate
validDateOptions(b) ==
  IF ~isRecord(b) THEN TRUE
  ELSE LET f == getDateFields(b)
           dayTrimmed == Trim(f.day)
           monthTrimmed == Trim(f.month)
           yearTrimmed == Trim(f.year)
       IN IF Len(dayTrimmed) = EMPTY /\ Len(monthTrimmed) = EMPTY /\ Len(yearTrimmed) = EMPTY
          THEN TRUE
          ELSE IF Len(dayTrimmed) = EMPTY \/ Len(monthTrimmed) = EMPTY \/ Len(yearTrimmed) = EMPTY
          THEN TRUE
          ELSE isDate(dateStringFromThreeFields(dayTrimmed, monthTrimmed, yearTrimmed))

(***************************************************************************)
(* personSchema: validatePerson, one validation chain per schema field.    *)
(* A chain takes and returns [body, errors]: sanitizers write the          *)
(* sanitized value back to the body, validators append errors.             *)
(***************************************************************************)
\* obj[key] of an object value
Prop(obj, key) == IF key \in DOMAIN obj.v THEN obj.v[key] ELSE Undef

\* a !== b: primitives by type and value, objects and arrays by identity
\* (a body value and a session value are never the same object)
StrictNotEqual(a, b) ==
  IF a.t \in {"object", "array"} \/ b.t \in {"object", "array"} THEN TRUE ELSE a # b

\* customSanitizer of fullName and address
customSanitizer(value) ==
  IF IsNullish(value) THEN value
  ELSE IF ~IsString(value)
       THEN IF value.t \in {"object", "array"} THEN S("")
            ELSE IF value.t \in {"number", "boolean"} THEN S(JsString(value))
            ELSE S("")
       ELSE value

\* requiredStringChain without trim: true
requiredStringChainUntrimmed(ctx, path, key) ==
  LET sanitized == customSanitizer(SelectField(ctx.body, path))
      b1 == WriteField(ctx.body, path, sanitized)
  IN [body |-> b1,
      errors |-> ctx.errors \o notEmptyErrors(sanitized, path, TypedMessage(key))]

\* customSanitizer, trim, notEmpty
requiredStringChain(ctx, path, key) ==
  LET sanitized == customSanitizer(SelectField(ctx.body, path))
      b1 == WriteField(ctx.body, path, sanitized)
      trimmed == trimSanitizer(sanitized)
      b2 == WriteField(b1, path, trimmed)
  IN [body |-> b2,
      errors |-> ctx.errors \o notEmptyErrors(trimmed, path, TypedMessage(key))]

fullNameChain(ctx) ==
  requiredStringChain(ctx, "fullName", "forms.name.validationError.notEmpty")

addressChain(ctx) ==
  requiredStringChain(ctx, "address", "forms.address.validationError.notEmpty")

ContactPreferenceOptions == {"email", "phone", "post"}
PriorityOptions == {"low", "medium", "high", "urgent"}

\* contactPreferenceChanged returning value === originalContactPreference
contactPreferenceChangedInverted(value, sess) ==
  LET originalData == IF ~IsNullish(sess) /\ isValidRecord(sess)
                      THEN Prop(sess, "personOriginal") ELSE Undef
  IN IF ~isValidRecord(originalData) THEN TRUE
     ELSE LET originalContactPreference == Prop(originalData, "contactPreference")
          IN IF IsNullish(originalContactPreference) THEN TRUE
             ELSE ~StrictNotEqual(value, originalContactPreference)

\* contactPreferenceChanged comparing the trimmed, lower-cased strings
contactPreferenceChangedFolded(value, sess) ==
  LET originalData == IF ~IsNullish(sess) /\ isValidRecord(sess)
                      THEN Prop(sess, "personOriginal") ELSE Undef
  IN IF ~isValidRecord(originalData) THEN TRUE
     ELSE LET originalContactPreference == Prop(originalData, "contactPreference")
          IN IF IsNullish(originalContactPreference) THEN TRUE
             ELSE IF IsString(value) /\ IsString(originalContactPreference)
             THEN ToLowerCase(Trim(value.v)) # ToLowerCase(Trim(originalContactPreference.v))
             ELSE StrictNotEqual(value, originalContactPreference)

\* custom.options of contactPreference
contactPreferenceChanged(value, sess) ==
  LET originalData == IF ~IsNullish(sess) /\ isValidRecord(sess)
                      THEN Prop(sess, "personOriginal") ELSE Undef
  IN IF ~isValidRecord(originalData) THEN TRUE
     ELSE LET originalContactPreference == Prop(originalData, "contactPreference")
          IN IF IsNullish(originalContactPreference) THEN TRUE
             ELSE StrictNotEqual(value, originalContactPreference)

\* priorityChanged without the test for a missing original priority
priorityChangedUnguarded(value, sess) ==
  IF ~isRecord(sess) THEN TRUE
  ELSE IF ~isValidRecord(Prop(sess, "personOriginal")) THEN TRUE
  ELSE StrictNotEqual(value, Prop(Prop(sess, "personOriginal"), "priority"))

\* custom.options of priority
priorityChanged(value, sess) ==
  IF ~isRecord(sess) THEN TRUE
  ELSE IF ~isValidRecord(Prop(sess, "personOriginal")) THEN TRUE
  ELSE LET originalPriority == Prop(Prop(sess, "personOriginal"), "priority")
       IN IF IsNullish(originalPriority) THEN TRUE
          ELSE StrictNotEqual(value, originalPriority)

\* notEmpty, isIn, custom: no sanitizer, and no bail between the validators
contactPreferenceChain(ctx, sess) ==
  LET path == "contactPreference"
      value == SelectField(ctx.body, path)
  IN [body |-> ctx.body,
      errors |-> ctx.errors
        \o notEmptyErrors(value, path,
             TypedMessage("forms.contactPreference.validationError.notEmpty"))
        \o isInErrors(value, ContactPreferenceOptions, path,
             TypedMessage("forms.contactPreference.validationError.invalidOption"))
        \o customErrors(contactPreferenceChanged(value, sess), path,
             TypedMessage("forms.contactPreference.validationError.notChanged"))]

priorityChain(ctx, sess) ==
  LET path == "priority"
      value == SelectField(ctx.body, path)
  IN [body |-> ctx.body,
      errors |-> ctx.errors
        \o notEmptyErrors(value, path,
             TypedMessage("forms.priority.validationError.notEmpty"))
        \o isInErrors(value, PriorityOptions, path,
             TypedMessage("forms.priority.validationError.invalidOption"))
        \o customErrors(priorityChanged(value, sess), path,
             TypedMessage("forms.priority.validationError.notChanged"))]

\* isArray({min: MIN_COMMUNICATION_METHODS})
communicationMethodsChain(ctx) ==
  LET path == "communicationMethods"
      value == SelectField(ctx.body, path)
  IN [body |-> ctx.body,
      errors |-> ctx.errors
        \o customErrors(value.t = "array" /\ Len(value.v) >= MIN_COMMUNICATION_METHODS,
             path, TypedMessage("forms.communicationMethods.validationError.notEmpty"))]

\* trim, custom
dayChain(ctx) ==
  LET path == "dateOfBirth-day"
      trimmed == trimSanitizer(SelectField(ctx.body, path))
      b1 == WriteField(ctx.body, path, trimmed)
  IN [body |-> b1,
      errors |-> ctx.errors
        \o customErrors(validateDayField(trimmed, b1), path,
                        dateErrorMessage("day", trimmed, b1))]

monthChain(ctx) ==
  LET path == "dateOfBirth-month"
      trimmed == trimSanitizer(SelectField(ctx.body, path))
      b1 == WriteField(ctx.body, path, trimmed)
  IN [body |-> b1,
      errors |-> ctx.errors
        \o customErrors(validateMonthField(trimmed, b1), path,
                        dateErrorMessage("month", trimmed, b1))]

yearChain(ctx) ==
  LET path == "dateOfBirth-year"
      trimmed == trimSanitizer(SelectField(ctx.body, path))
      b1 == WriteField(ctx.body, path, trimmed)
  IN [body |-> b1,
      errors |-> ctx.errors
        \o customErrors(validateYearField(trimmed, b1), path, yearErrorMessage(trimmed, b1))]

validDateChain(ctx) ==
  [body |-> ctx.body,
   errors |-> ctx.errors
     \o customErrors(validDateOptions(ctx.body), "validDate",
                     TypedMessage("forms.dateOfBirth.validationError.validDate"))]

\* validatePerson with priority declared before contactPreference
validatePersonReordered(b, sess) ==
  LET c0 == [body |-> b, errors |-> <<>>]
      c1 == fullNameChain(c0)
      c2 == addressChain(c1)
      c3 == priorityChain(c2, sess)
      c4 == contactPreferenceChain(c3, sess)
      c5 == communicationMethodsChain(c4)
      c6 == dayChain(c5)
      c7 == monthChain(c6)
      c8 == yearChain(c7)
  IN validDateChain(c8)

\* the chains of checkSchema run as middleware one after the other, in the
\* order of the schema's keys
validatePerson(b, sess) ==
  LET c0 == [body |-> b, errors |-> <<>>]
      c1 == fullNameChain(c0)
      c2 == addressChain(c1)
      c3 == contactPreferenceChain(c2, sess)
      c4 == priorityChain(c3, sess)
      c5 == communicationMethodsChain(c4)
      c6 == dayChain(c5)
      c7 == monthChain(c6)
      c8 == yearChain(c7)
  IN validDateChain(c8)

(***************************************************************************)
(* ValidationErrorHelpers: safeString, formatValidationError,              *)
(* formatValidationErrors, createChangeDetectionValidator                  *)
(***************************************************************************)
ZERO_VALUE == 0
EMPTY_OBJECT_LENGTH == 0

shouldReturnEmptyString(value) ==
  \/ value.t \in {"null", "undefined"}
  \/ (value.t = "string" /\ value.v = "")
  \/ (value.t = "number" /\ value.v = ZERO_VALUE)
  \/ (value.t = "boolean" /\ value.v = FALSE)

RECURSIVE jsonStringify(_)
RECURSIVE jsonMembers(_, _)

\* the members of an object, comma separated; a member whose value is
\* undefined or a function is left out
jsonMembers(f, keys) ==
  IF keys = {} THEN ""
  ELSE LET k == CHOOSE x \in keys : TRUE
           rest == jsonMembers(f, keys \ {k})
           member == "\"" \o k \o "\":" \o jsonStringify(f[k])
       IN IF f[k].t \in {"undefined", "function"} THEN rest
          ELSE IF rest = "" THEN member
          ELSE member \o "," \o rest

\* JSON.stringify(value)
jsonStringify(x) ==
  CASE x.t = "string" -> "\"" \o x.v \o "\""
    [] x.t = "number" -> NumberToString(x.v)
    [] x.t = "boolean" -> IF x.v THEN "true" ELSE "false"
    [] x.t \in {"null", "undefined"} -> "null"
    [] x.t = "array" ->
         "[" \o JoinStrings([i \in 1..Len(x.v) |-> jsonStringify(x.v[i])], ",") \o "]"
    [] x.t = "object" -> "{" \o jsonMembers(x.v, DOMAIN x.v) \o "}"

\* Object.keys(value).length
KeyCount(x) == IF x.t = "array" THEN Len(x.v) ELSE Cardinality(DOMAIN x.v)

safeString(value) ==
  IF shouldReturnEmptyString(value) THEN ""
  ELSE IF value.t = "string" THEN value.v
  ELSE IF value.t \in {"number", "boolean"} THEN JsString(value)
  ELSE IF value.t \in {"object", "array"}
       THEN IF KeyCount(value) = EMPTY_OBJECT_LENGTH THEN "" ELSE jsonStringify(value)
  ELSE JsString(value)

\* formatValidationError without the 'Invalid value' default
formatValidationErrorNoDefault(error) ==
  IF error.msg.t = "TypedValidationError"
  THEN [summaryMessage |-> error.msg.summaryMessage,
        inlineMessage |-> error.msg.inlineMessage]
  ELSE IF isRecord(error.msg) /\ hasProperty(error.msg, "summaryMessage")
          /\ hasProperty(error.msg, "inlineMessage")
  THEN [summaryMessage |-> safeString(error.msg.v["summaryMessage"]),
        inlineMessage |-> safeString(error.msg.v["inlineMessage"])]
  ELSE [summaryMessage |-> safeString(error.msg), inlineMessage |-> safeString(error.msg)]

formatValidationError(error) ==
  IF error.msg.t = "TypedValidationError"
  THEN [summaryMessage |-> error.msg.summaryMessage,
        inlineMessage |-> error.msg.inlineMessage]
  ELSE IF isRecord(error.msg) /\ hasProperty(error.msg, "summaryMessage")
          /\ hasProperty(error.msg, "inlineMessage")
  THEN [summaryMessage |-> safeString(error.msg.v["summaryMessage"]),
        inlineMessage |-> safeString(error.msg.v["inlineMessage"])]
  ELSE LET safeMessage == safeString(error.msg)
           message == IF safeMessage # "" THEN safeMessage ELSE "Invalid value"
       IN [summaryMessage |-> message, inlineMessage |-> message]

\* 'path' in error && typeof error.path === 'string' ? error.path : 'unknown'
fieldNameOf(error) == IF "path" \in DOMAIN error THEN error.path ELSE "unknown"

\* rawErrors.map(...): field name with the formatted messages
formattedErrors(rawErrors) ==
  [i \in 1..Len(rawErrors) |->
     [fieldName |-> fieldNameOf(rawErrors[i]),
      summaryMessage |-> formatValidationError(rawErrors[i]).summaryMessage,
      inlineMessage |-> formatValidationError(rawErrors[i]).inlineMessage]]

\* keepsInline without the test of the message
keepsInlineAlways(inlineMessage) == TRUE

\* whether an inline message becomes a field's inline error
keepsInline(inlineMessage) == Trim(inlineMessage) # ""

\* formattedErrors.reduce(...): a later error of a field overwrites an
\* earlier one
inputErrorsOf(fe) ==
  LET kept == {i \in 1..Len(fe) : keepsInline(fe[i].inlineMessage)}
  IN [f \in {fe[i].fieldName : i \in kept} |->
        fe[CHOOSE i \in kept :
             /\ fe[i].fieldName = f
             /\ \A j \in kept : fe[j].fieldName = f => j <= i].inlineMessage]

\* errorSummaryListOf built from the errors that have an inline message only
errorSummaryListOfInline(fe) ==
  LET kept == SelectSeq(fe, LAMBDA e : keepsInline(e.inlineMessage))
  IN [i \in 1..Len(kept) |->
        [text |-> kept[i].summaryMessage, href |-> "#" \o kept[i].fieldName]]

errorSummaryListOf(fe) ==
  [i \in 1..Len(fe) |-> [text |-> fe[i].summaryMessage, href |-> "#" \o fe[i].fieldName]]

formatValidationErrors(rawErrors) ==
  [inputErrors |-> inputErrorsOf(formattedErrors(rawErrors)),
   errorSummaryList |-> errorSummaryListOf(formattedErrors(rawErrors))]

\* normalizeBooleanValue without toLowerCase()
normalizeBooleanValueCaseSensitive(value) ==
  LET stringValue == Trim(safeString(value))
  IN IF stringValue = "" \/ stringValue = "false" \/ stringValue = "off" THEN "false"
     ELSE IF stringValue = "on" \/ stringValue = "true" \/ stringValue = "1" THEN "true"
     ELSE stringValue

normalizeBooleanValue(value) ==
  LET stringValue == ToLowerCase(Trim(safeString(value)))
  IN IF stringValue = "" \/ stringValue = "false" \/ stringValue = "off" THEN "false"
     ELSE IF stringValue = "on" \/ stringValue = "true" \/ stringValue = "1" THEN "true"
     ELSE stringValue

\* the callback of fieldMappings.some(...)
mappingHasChanged(b, mapping) ==
  LET currentRaw == IF hasProperty(b, mapping.current) THEN b.v[mapping.current] ELSE S("")
      originalRaw == IF hasProperty(b, mapping.original) THEN b.v[mapping.original] ELSE S("")
      currentValue == normalizeBooleanValue(S(safeString(currentRaw)))
      originalValue == normalizeBooleanValue(S(safeString(originalRaw)))
  IN currentValue # originalValue

\* custom.options of createChangeDetectionValidator(fieldMappings, ...)
changeDetectionOptions(b, fieldMappings) ==
  IF ~isRecord(b) THEN TRUE
  ELSE \E i \in 1..Len(fieldMappings) : mappingHasChanged(b, fieldMappings[i])

\* neither message thunk has been called
NoCalls == [summaryMessage |-> 0, inlineMessage |-> 0]

\* resolve(val): the string, or the result of the thunk
resolve(val) == val.v

\* the calls of a thunk that resolve(val) makes
resolveCalls(val) == IF val.t = "function" THEN 1 ELSE 0

\* custom.errorMessage of createChangeDetectionValidator(..., errorMessage)
changeDetectionErrorMessage(em) ==
  TypedValidationError(resolve(em.summaryMessage), resolve(em.inlineMessage))

\* the thunk calls of one call of custom.errorMessage
errorMessageCalls(em) ==
  [summaryMessage |-> resolveCalls(em.summaryMessage),
   inlineMessage |-> resolveCalls(em.inlineMessage)]

\* changeDetectionChain resolving the messages whether the rule fails or not
changeDetectionChainEager(ctx, fieldMappings, em) ==
  [body |-> ctx.body,
   errors |-> ctx.errors
     \o customErrors(changeDetectionOptions(ctx.body, fieldMappings), "notChanged",
                     changeDetectionErrorMessage(em)),
   calls |-> errorMessageCalls(em)]

\* checkSchema({notChanged: createChangeDetectionValidator(fieldMappings, em)}):
\* the message function is called when the validator has failed
changeDetectionChain(ctx, fieldMappings, em) ==
  LET passed == changeDetectionOptions(ctx.body, fieldMappings)
  IN [body |-> ctx.body,
      errors |-> ctx.errors
        \o customErrors(passed, "notChanged", changeDetectionErrorMessage(em)),
      calls |-> IF passed THEN NoCalls ELSE errorMessageCalls(em)]

(***************************************************************************)
(* Session helpers (scripts/helpers/sessionHelpers)                        *)
(***************************************************************************)
\* String.prototype.includes
Includes(s, sub) ==
  \E i \in 1..(Len(s) - Len(sub) + 1) : SubSeq(s, i, i + Len(sub) - 1) = sub

\* the keys of an object
KeysOf(obj) == IF obj.t = "object" THEN DOMAIN obj.v ELSE {}

\* delete obj[key]
DeleteKey(obj, key) == O([k \in KeysOf(obj) \ {key} |-> obj.v[k]])

storeSessionData(sess, namespace, data) == WriteField(sess, namespace, data)

getSessionData(sess, namespace) ==
  LET data == Prop(sess, namespace)
  IN IF data.t \in {"object", "array"} THEN data ELSE Null

clearSessionData(sess, namespace) == DeleteKey(sess, namespace)

\* clearAllOriginalFormData removing the keys that contain 'original' as well
clearAllOriginalFormDataAnyCase(sess) ==
  O([k \in {x \in KeysOf(sess) : ~Includes(ToLowerCase(x), "original")} |-> sess.v[k]])

clearAllOriginalFormData(sess) ==
  O([k \in {x \in KeysOf(sess) : ~Includes(x, "Original")} |-> sess.v[k]])

\* the string a form value is stored as
originalString(value) == IF IsNullish(value) THEN S("") ELSE S(JsString(value))

storeOriginalFormData(sess, namespace, formData) ==
  storeSessionData(sess, namespace,
    O([k \in KeysOf(formData) |-> originalString(formData.v[k])]))

(***************************************************************************)
(* nameSchema, nameController and personController                         *)
(***************************************************************************)
\* new Error(message)
Error(message) == [t |-> "Error", message |-> message]

csrfToken == S("mock-csrf-token")

\* res.status(status).render(view, locals) inside try, next(error) in catch,
\* with the catch block handing next an error of its own
RenderWrapped(status, view, locals, renderError) ==
  [status |-> status,
   view |-> IF renderError = Null THEN view ELSE Null,
   locals |-> IF renderError = Null THEN locals ELSE Null,
   raised |-> renderError,
   next |-> IF renderError = Null THEN <<>> ELSE <<Error("Internal Server Error")>>,
   rethrown |-> Null]

\* res.status(status).render(view, locals) inside try, next(error) in catch:
\* render either returns or throws renderError; raised is what was thrown
\* inside the handler, rethrown what the handler throws to its caller
Render(status, view, locals, renderError) ==
  [status |-> status,
   view |-> IF renderError = Null THEN view ELSE Null,
   locals |-> IF renderError = Null THEN locals ELSE Null,
   raised |-> renderError,
   next |-> IF renderError = Null THEN <<>> ELSE <<renderError>>,
   rethrown |-> Null]

\* the catch block of a handler that threw before it rendered
Caught(error) ==
  [status |-> 200, view |-> Null, locals |-> Null, raised |-> error, next |-> <<error>>,
   rethrown |-> Null]

\* validateName(): trim, notEmpty
validateName(b) ==
  LET trimmed == trimSanitizer(SelectField(b, "fullName"))
  IN [body |-> WriteField(b, "fullName", trimmed),
      errors |-> notEmptyErrors(trimmed, "fullName",
                   TypedValidationError("Enter your full name", "Enter your full name"))]

getName(stored, renderError) ==
  Render(200, "change-name.njk",
         [currentName |-> stored, csrfToken |-> csrfToken, formData |-> EmptyObject,
          error |-> Null],
         renderError)

\* fieldName and errorMessage of one raw error in postName
nameFieldName(error) == IF "path" \in DOMAIN error THEN error.path ELSE "fullName"

nameErrorMessage(error) == IF error.msg.t = "string" THEN error.msg.v ELSE "Invalid value"

nameInputErrors(rawErrors) ==
  [f \in {nameFieldName(rawErrors[i]) : i \in 1..Len(rawErrors)} |->
     nameErrorMessage(rawErrors[CHOOSE i \in 1..Len(rawErrors) :
                        /\ nameFieldName(rawErrors[i]) = f
                        /\ \A j \in 1..Len(rawErrors) :
                             nameFieldName(rawErrors[j]) = f => j <= i])]

nameErrorSummaryList(rawErrors) ==
  [i \in 1..Len(rawErrors) |->
     [text |-> nameErrorMessage(rawErrors[i]), href |-> "#" \o nameFieldName(rawErrors[i])]]

postName(b, rawErrors, stored, renderError) ==
  IF rawErrors # <<>>
  THEN [currentStoredName |-> stored,
        response |-> Render(400, "change-name.njk",
                       [currentName |-> stored, csrfToken |-> csrfToken, formData |-> b,
                        error |-> [inputErrors |-> nameInputErrors(rawErrors),
                                   errorSummaryList |-> nameErrorSummaryList(rawErrors)]],
                       renderError)]
  ELSE IF IsNullish(b)
  THEN [currentStoredName |-> stored, response |-> Caught(TypeError)]
  ELSE LET fullName == SelectField(b, "fullName")
       IN [currentStoredName |-> fullName,
           response |-> Render(200, "change-name.njk",
                          [currentName |-> fullName, csrfToken |-> csrfToken,
                           formData |-> O([fullName |-> S("")]), error |-> Null,
                           successMessage |-> "Name updated successfully"],
                          renderError)]

HTTP_STATUS_BAD_REQUEST == 400

DEFAULT_PERSON_DATA ==
  [fullName |-> S("John Smith"),
   address |-> S("123 Example Street\nExample City\nEX1 2MP"),
   contactPreference |-> S("email"),
   priority |-> S("medium"),
   dateOfBirth |-> O([day |-> S("27"), month |-> S("3"), year |-> S("1986")])]

safeStringValue(value, defaultValue) ==
  IF value.t = "string" /\ value.v # "" THEN value ELSE defaultValue

safeDateOfBirth(value) ==
  IF value.t = "object" /\ {"day", "month", "year"} \subseteq DOMAIN value.v
  THEN O([k \in {"day", "month", "year"} |->
            IF value.v[k].t = "string" THEN value.v[k]
            ELSE DEFAULT_PERSON_DATA.dateOfBirth.v[k]])
  ELSE DEFAULT_PERSON_DATA.dateOfBirth

getCurrentPersonData(sess) ==
  LET sessionData == getSessionData(sess, "currentPerson")
  IN IF sessionData # Null
     THEN [fullName |-> safeStringValue(Prop(sessionData, "fullName"),
                                        DEFAULT_PERSON_DATA.fullName),
           address |-> safeStringValue(Prop(sessionData, "address"),
                                       DEFAULT_PERSON_DATA.address),
           contactPreference |-> safeStringValue(Prop(sessionData, "contactPreference"),
                                                 DEFAULT_PERSON_DATA.contactPreference),
           priority |-> safeStringValue(Prop(sessionData, "priority"),
                                        DEFAULT_PERSON_DATA.priority),
           dateOfBirth |-> safeDateOfBirth(Prop(sessionData, "dateOfBirth"))]
     ELSE DEFAULT_PERSON_DATA

\* the current person data as the person page shows it
currentLocals(currentPersonData) ==
  [currentName |-> currentPersonData.fullName,
   currentAddress |-> currentPersonData.address,
   currentContactPreference |-> currentPersonData.contactPreference,
   currentPriority |-> currentPersonData.priority,
   currentDateOfBirth |-> currentPersonData.dateOfBirth,
   csrfToken |-> csrfToken]

getPerson(sess, renderError) ==
  LET currentPersonData == getCurrentPersonData(sess)
      originalFormData ==
        O(("fullName" :> currentPersonData.fullName)
          @@ ("address" :> currentPersonData.address)
          @@ ("contactPreference" :> currentPersonData.contactPreference)
          @@ ("priority" :> currentPersonData.priority)
          @@ ("dateOfBirth-day" :> currentPersonData.dateOfBirth.v["day"])
          @@ ("dateOfBirth-month" :> currentPersonData.dateOfBirth.v["month"])
          @@ ("dateOfBirth-year" :> currentPersonData.dateOfBirth.v["year"]))
  IN [session |-> storeOriginalFormData(sess, "personOriginal", originalFormData),
      response |-> Render(200, "change-person.njk",
                     currentLocals(currentPersonData)
                       @@ [formData |-> EmptyObject, error |-> Null],
                     renderError)]

PersonFormKeys ==
  <<"fullName", "address", "contactPreference", "priority",
    "dateOfBirth-day", "dateOfBirth-month", "dateOfBirth-year">>

extractFormFields(b, keys) ==
  O([k \in {keys[i] : i \in 1..Len(keys)} |-> safeBodyString(b, k)])

\* the keys postPerson stores under currentPerson
StoredPersonKeys ==
  {"fullName", "address", "contactPreference",
   "dateOfBirth-day", "dateOfBirth-month", "dateOfBirth-year"}

\* postPerson storing the submitted values although validation failed
postPersonStoresInvalid(b, rawErrors, sess, renderError) ==
  LET formFields == extractFormFields(b, PersonFormKeys)
      updatedPersonData == O([k \in StoredPersonKeys |-> S(JsString(formFields.v[k]))])
      stored == storeSessionData(sess, "currentPerson", updatedPersonData)
  IN [session |-> stored,
      response |-> Render(IF rawErrors # <<>> THEN HTTP_STATUS_BAD_REQUEST ELSE 200,
                     "change-person.njk",
                     currentLocals(getCurrentPersonData(stored))
                       @@ [formData |-> formFields,
                           error |-> IF rawErrors # <<>> THEN formatValidationErrors(rawErrors)
                                     ELSE Null],
                     renderError)]

postPerson(b, rawErrors, sess, renderError) ==
  LET formFields == extractFormFields(b, PersonFormKeys)
  IN IF rawErrors # <<>>
     THEN [session |-> sess,
           response |-> Render(HTTP_STATUS_BAD_REQUEST, "change-person.njk",
                          currentLocals(getCurrentPersonData(sess))
                            @@ [formData |-> formFields,
                                error |-> formatValidationErrors(rawErrors)],
                          renderError)]
     ELSE LET updatedPersonData ==
                O([k \in StoredPersonKeys |-> S(JsString(formFields.v[k]))])
              stored == storeSessionData(sess, "currentPerson", updatedPersonData)
          IN [session |-> stored,
              response |-> Render(200, "change-person.njk",
                             currentLocals(getCurrentPersonData(stored))
                               @@ [formData |-> O([k \in {PersonFormKeys[i] : i \in 1..7}
                                                     |-> S("")]),
                                   error |-> Null,
                                   successMessage |-> "Person details updated successfully"],
                             renderError)]

(***************************************************************************)
(* Requests: the bodies, sessions, field mappings and validation results   *)
(* the pipeline is run on                                                  *)
(***************************************************************************)
\* the browsers that send requests
Clients == {1, 2}

MaxErrors == 2
MaxMappings == 2

FieldOrder ==
  <<"fullName", "address", "contactPreference", "priority", "communicationMethods",
    "dateOfBirth-day", "dateOfBirth-month", "dateOfBirth-year", "validDate">>

\* a body object: a field whose value is undefined is not a key of the body
MkBody(f) == O([k \in {x \in DOMAIN f : f[x] # Undef} |-> f[k]])

PersonBody(fullName, address, contactPreference, priority, communicationMethods, date) ==
  MkBody([k \in {FieldOrder[i] : i \in 1..8} |->
    CASE k = "fullName" -> fullName
      [] k = "address" -> address
      [] k = "contactPreference" -> contactPreference
      [] k = "priority" -> priority
      [] k = "communicationMethods" -> communicationMethods
      [] k = "dateOfBirth-day" -> date[1]
      [] k = "dateOfBirth-month" -> date[2]
      [] k = "dateOfBirth-year" -> date[3]])

FullNameValues == {Undef, Null, S(" \t"), S(" Al "), N(12), A(<<S("Al")>>)}
AddressValues == {Undef, S(""), S("1 High St\n"), EmptyObject, B(TRUE)}
ContactPreferenceValues ==
  {Undef, S(""), S("email"), S(" Email"), S("phone"), S("fax"), A(<<S("fax"), S("sms")>>)}
PriorityValues == {Undef, S(""), S("medium"), S("high"), S("top")}
CommunicationMethodsValues == {Undef, S("email"), A(<<>>), A(<<S("email")>>)}
DayValues ==
  {Undef, S(""), S(" "), S("29"), S("31"), S("32"), S("0"), S("1a"), S("abc"), N(15),
   A(<<S("40")>>)}
MonthValues == {Undef, S(""), S("2"), S(" 4"), S("13"), S("x"), A(<<S("13")>>)}
YearValues ==
  {Undef, S(""), S("2000"), S("1999"), S("2020 "), S("199a"), S("90"), A(<<S("x")>>)}

NoDate == <<Undef, Undef, Undef>>
FewDates == {NoDate, <<S("29"), S("2"), S("2000")>>, <<S("29"), Undef, S("")>>}
AllDates == DayValues \X MonthValues \X YearValues

\* req.session: no session middleware, a fresh session, and the snapshots
\* getPerson stores (the personController of the routes stores no priority)
Sessions ==
  {Undef,
   EmptyObject,
   O([personOriginal |-> O([fullName |-> S("John Smith"), contactPreference |-> S("email"),
                            priority |-> S("medium")])]),
   O([personOriginal |-> O([fullName |-> S("Al"), contactPreference |-> S("phone")])])}

\* requests to POST /change/person
PersonRequests ==
  \* the required strings and the array field
  ({PersonBody(fn, ad, S("email"), S("medium"), cm, d) :
      fn \in FullNameValues, ad \in AddressValues,
      cm \in CommunicationMethodsValues, d \in FewDates} \X {Undef})
  \cup
  \* the enum fields against the stored originals
  ({PersonBody(na[1], na[2], cp, pr, A(<<S("email")>>), d) :
      na \in {<<S(" Al "), S("1 High St\n")>>, <<Undef, S("")>>},
      cp \in ContactPreferenceValues, pr \in PriorityValues,
      d \in {NoDate, <<S("32"), S("2"), S("2000")>>}} \X Sessions)
  \cup
  \* the date of birth
  ({PersonBody(S("Al"), ad, S("phone"), S("high"), A(<<S("email")>>), d) :
      ad \in {S("1 High St"), Undef}, d \in AllDates} \X {Undef})
  \cup
  \* every field right or wrong, independently of the others
  ({PersonBody(fn, ad, cp, pr, cm, <<dd, mm, yy>>) :
      fn \in {S("Al"), Null}, ad \in {S("1 High St"), S("")},
      cp \in {S("post"), S("fax")}, pr \in {S("urgent"), Undef},
      cm \in {A(<<S("post")>>), S("post")},
      dd \in {S("31"), S("32")}, mm \in {S("3"), S("13")}, yy \in {S("2000"), S("90")}}
    \X Sessions)
  \cup
  \* fullName and address and nothing else
  ({PersonBody(fn, ad, Undef, Undef, Undef, NoDate) :
      fn \in FullNameValues, ad \in AddressValues} \X {Undef})
  \cup
  \* a body that is not an object, next to the empty object
  ({Undef, Null, S("fullName=Al"), A(<<S("Al")>>), EmptyObject} \X Sessions)

\* bodies of requests validated by a createChangeDetectionValidator schema
ChangeValues ==
  {Undef, Null, S(""), S("false"), S("off"), S(" OFF "), S("on"), S("true"), S("1"),
   S("True"), S("abc"), S(" ABC"), S("0"), N(0), N(1), B(FALSE), B(TRUE), EmptyObject,
   A(<<S("on")>>)}
FewChangeValues == {Undef, S("on"), S("abc")}

Mapping(i) ==
  [current |-> "field" \o NumberToString(i), original |-> "original" \o NumberToString(i)]

MappingsOf(n) == [i \in 1..n |-> Mapping(i)]

ChangeBody(values) ==
  MkBody([k \in {Mapping(i).current : i \in 1..Len(values)}
                  \cup {Mapping(i).original : i \in 1..Len(values)} |->
            LET i == CHOOSE j \in 1..Len(values) :
                       k \in {Mapping(j).current, Mapping(j).original}
            IN IF k = Mapping(i).current THEN values[i][1] ELSE values[i][2]])

ChangeRequests ==
  ({ChangeBody(<<p>>) : p \in ChangeValues \X ChangeValues} \X {MappingsOf(1)})
  \cup
  UNION {{ChangeBody(q) : q \in [1..n -> FewChangeValues \X FewChangeValues]}
           \X {MappingsOf(n)} : n \in 2..MaxMappings}
  \cup
  ({Undef, Null, S("field1=on"), A(<<S("on")>>), EmptyObject}
     \X {MappingsOf(n) : n \in 0..MaxMappings})

\* the errorMessage argument: the texts of the unit tests, as strings and as
\* thunks
StaticMessages ==
  [summaryMessage |-> S("No changes detected"), inlineMessage |-> S("Please make changes")]

ErrorMessages ==
  {StaticMessages,
   [summaryMessage |-> Fn("No changes detected"), inlineMessage |-> S("Please make changes")],
   [summaryMessage |-> Fn("No changes detected"), inlineMessage |-> Fn("Please make changes")]}

\* the requests made with each of the errorMessage arguments
LazyRequests ==
  ({ChangeBody(<<p>>) : p \in FewChangeValues \X FewChangeValues} \cup {Undef})
    \X {MappingsOf(1)}

ErrorMessagesOf(r) == IF r \in LazyRequests THEN ErrorMessages ELSE {StaticMessages}

\* errors of a validation result handed to formatValidationErrors directly
Failures ==
  {FieldError("field1", TypedValidationError("Field1 summary error", "Field1 inline error")),
   FieldError("field2", TypedValidationError("Field2 summary error", "Field2 inline error")),
   FieldError("field1", TypedValidationError("Summary only error", "")),
   FieldError("field2", TypedValidationError("Summary only error", " \t")),
   FieldError("field1", S("Simple error message")),
   FieldError("field2", S("")),
   FieldError("field1", O([summaryMessage |-> S("Test summary"), inlineMessage |-> Null])),
   FieldError("field2", Null),
   FieldError("field1", N(0)),
   FieldError("field2", B(FALSE)),
   FieldError("field1", EmptyObject),
   FieldError("field2", N(123)),
   FieldError("field1", B(TRUE)),
   FieldError("field2", O([toString |-> Fn("custom error")])),
   [msg |-> TypedValidationError("Global error", "Global error")]}

Results == UNION {[1..n -> Failures] : n \in 0..MaxErrors}

(***************************************************************************)
(* The pipeline, one request at a time                                     *)
(***************************************************************************)
\* nameController and personController as the module loader leaves them
ControllersInit ==
  /\ response = Null
  /\ previous = Undef
  /\ accepted = Null
  /\ currentStoredName = S("John Smith")
  /\ client = 0
  /\ ownName = [c \in Clients |-> S("John Smith")]

\* no axios instance yet
ApiInit ==
  /\ apiPc = "none"
  /\ apiConfig = Null
  /\ apiError = Null
  /\ apiOutcome = Null
  /\ clearTokensCalls = 0
  /\ devLogs = <<>>

\* no request in flight
IdleRequest ==
  /\ pc = "idle"
  /\ route = "none"
  /\ submitted = Undef
  /\ body = Undef
  /\ mappings = <<>>
  /\ errors = <<>>
  /\ result = Null
  /\ errorMessage = Null
  /\ thunkCalls = NoCalls

Init ==
  /\ IdleRequest
  /\ session = Undef
  /\ ControllersInit
  /\ ApiInit

\* POST /change/person arrives with its body and session
ReceivePerson ==
  /\ pc = "idle"
  /\ \E r \in PersonRequests :
       /\ submitted' = r[1]
       /\ body' = r[1]
       /\ session' = r[2]
  /\ route' = "person"
  /\ pc' = "received"
  /\ UNCHANGED <<mappings, errors, result, errorMessage, thunkCalls, ctlVars, apiVars>>

\* the validatePerson() middleware
ValidatePerson ==
  /\ pc = "received"
  /\ route = "person"
  /\ body' = validatePerson(body, session).body
  /\ errors' = validatePerson(body, session).errors
  /\ pc' = "validated"
  /\ UNCHANGED <<route, session, submitted, mappings, result, errorMessage, thunkCalls,
               ctlVars, apiVars>>

\* a request arrives for a schema built with createChangeDetectionValidator
ReceiveChange ==
  /\ pc = "idle"
  /\ \E r \in ChangeRequests :
       /\ submitted' = r[1]
       /\ body' = r[1]
       /\ mappings' = r[2]
       /\ errorMessage' \in ErrorMessagesOf(r)
  /\ route' = "change"
  /\ pc' = "received"
  /\ UNCHANGED <<session, errors, result, thunkCalls, ctlVars, apiVars>>

\* the change detection middleware
ValidateChange ==
  /\ pc = "received"
  /\ route = "change"
  /\ LET done == changeDetectionChain([body |-> body, errors |-> <<>>], mappings, errorMessage)
     IN /\ errors' = done.errors
        /\ thunkCalls' = [k \in DOMAIN thunkCalls |-> thunkCalls[k] + done.calls[k]]
  /\ pc' = "validated"
  /\ UNCHANGED <<route, session, submitted, body, mappings, result, errorMessage,
                 ctlVars, apiVars>>

\* a caller hands formatValidationErrors a validation result of its own
ReceiveResult ==
  /\ pc = "idle"
  /\ \E r \in Results : errors' = r
  /\ route' = "result"
  /\ pc' = "validated"
  /\ UNCHANGED <<session, submitted, body, mappings, result, errorMessage, thunkCalls,
               ctlVars, apiVars>>

\* formatValidationErrors(validationResult(req))
FormatValidationErrors ==
  /\ pc = "validated"
  /\ result' = formatValidationErrors(errors)
  /\ pc' = "formatted"
  /\ UNCHANGED <<route, session, submitted, body, mappings, errors, errorMessage, thunkCalls,
               ctlVars, apiVars>>

\* the response is sent; the next request starts afresh
Respond ==
  /\ pc = "formatted"
  /\ pc' = "idle"
  /\ route' = "none"
  /\ session' = Undef
  /\ submitted' = Undef
  /\ body' = Undef
  /\ mappings' = <<>>
  /\ errors' = <<>>
  /\ result' = Null
  /\ errorMessage' = Null
  /\ thunkCalls' = NoCalls
  /\ UNCHANGED <<ctlVars, apiVars>>

Next ==
  \/ ReceivePerson
  \/ ValidatePerson
  \/ ReceiveChange
  \/ ValidateChange
  \/ ReceiveResult
  \/ FormatValidationErrors
  \/ Respond

Spec == Init /\ [][Next]_vars

(***************************************************************************)
(* The session helpers, called one after another on one session            *)
(***************************************************************************)
Namespaces == {"personOriginal", "OriginalNote", "originalUser", "person"}

\* data stored with storeSessionData
SessionData == {O([fullName |-> S("John Smith")])}

\* form data stored with storeOriginalFormData
FormData == {O([fullName |-> S("John Doe"), age |-> N(25), empty |-> Null])}

\* values a caller assigns to a session key directly
AssignedValues == {S("string value")}

SessionInit ==
  /\ IdleRequest
  /\ session = EmptyObject
  /\ ControllersInit
  /\ ApiInit

\* what every helper call leaves alone
HelperFrame ==
  UNCHANGED <<pc, submitted, body, mappings, errors, errorMessage, thunkCalls,
              response, accepted, currentStoredName, client, ownName, apiVars>>

StoreSessionData ==
  /\ \E namespace \in Namespaces, data \in SessionData :
       session' = storeSessionData(session, namespace, data)
  /\ route' = "storeSessionData"
  /\ previous' = session
  /\ result' = Undef
  /\ HelperFrame

StoreOriginalFormData ==
  /\ \E namespace \in Namespaces, formData \in FormData :
       session' = storeOriginalFormData(session, namespace, formData)
  /\ route' = "storeOriginalFormData"
  /\ previous' = session
  /\ result' = Undef
  /\ HelperFrame

\* req.session[namespace] = value
AssignSession ==
  /\ \E namespace \in Namespaces, value \in AssignedValues :
       session' = WriteField(session, namespace, value)
  /\ route' = "assign"
  /\ previous' = session
  /\ result' = Undef
  /\ HelperFrame

GetSessionData ==
  /\ \E namespace \in Namespaces : result' = getSessionData(session, namespace)
  /\ route' = "getSessionData"
  /\ previous' = session
  /\ UNCHANGED session
  /\ HelperFrame

ClearSessionData ==
  /\ \E namespace \in Namespaces : session' = clearSessionData(session, namespace)
  /\ route' = "clearSessionData"
  /\ previous' = session
  /\ result' = Undef
  /\ HelperFrame

ClearAllOriginalFormData ==
  /\ session' = clearAllOriginalFormData(session)
  /\ route' = "clearAllOriginalFormData"
  /\ previous' = session
  /\ result' = Undef
  /\ HelperFrame

SessionNext ==
  \/ StoreSessionData
  \/ StoreOriginalFormData
  \/ AssignSession
  \/ GetSessionData
  \/ ClearSessionData
  \/ ClearAllOriginalFormData

SessionSpec == SessionInit /\ [][SessionNext]_vars

(***************************************************************************)
(* The name form and the person form: requests of two clients, the person  *)
(* requests all of one session                                             *)
(***************************************************************************)
NameBodies == {EmptyObject, O([fullName |-> S(" \t")]), O([fullName |-> S(" Al ")])}

ControllerBody(fullName, contactPreference, priority, date) ==
  PersonBody(fullName, S("1 High St"), contactPreference, priority, A(<<S("email")>>), date)

PersonBodies ==
  {ControllerBody(S("Al"), S("email"), S("high"), NoDate),
   ControllerBody(S("Al"), S("phone"), S("high"), <<S("29"), S("2"), S("2000")>>),
   ControllerBody(S("Al"), S("phone"), S("medium"), NoDate),
   ControllerBody(S(" "), S(" phone"), S("high"), <<S("31 "), S("4"), Undef>>)}

\* what res.render does: it returns, or it throws
RenderErrors == {Null, Error("Test error"), Error("Template render error")}

ControllerInit == SessionInit

\* the last request has been answered
Ready == pc \in {"idle", "responded"}

\* GET /change/name
GetName ==
  /\ Ready
  /\ \E c \in Clients, renderError \in RenderErrors :
       /\ client' = c
       /\ response' = getName(currentStoredName, renderError)
  /\ pc' = "responded"
  /\ route' = "getName"
  /\ submitted' = Undef
  /\ body' = Undef
  /\ errors' = <<>>
  /\ result' = Null
  /\ previous' = session
  /\ UNCHANGED <<session, mappings, errorMessage, thunkCalls, accepted, currentStoredName,
                 ownName, apiVars>>

\* POST /change/name arrives
ReceiveName ==
  /\ Ready
  /\ \E c \in Clients, b \in NameBodies :
       /\ client' = c
       /\ submitted' = b
       /\ body' = b
  /\ pc' = "received"
  /\ route' = "name"
  /\ errors' = <<>>
  /\ result' = Null
  /\ response' = Null
  /\ previous' = session
  /\ UNCHANGED <<session, mappings, errorMessage, thunkCalls, accepted, currentStoredName,
                 ownName, apiVars>>

\* the validateName() middleware
ValidateName ==
  /\ pc = "received"
  /\ route = "name"
  /\ body' = validateName(body).body
  /\ errors' = validateName(body).errors
  /\ pc' = "validated"
  /\ UNCHANGED <<route, session, submitted, mappings, result, errorMessage, thunkCalls,
                 ctlVars, apiVars>>

PostName ==
  /\ pc = "validated"
  /\ route = "name"
  /\ \E renderError \in RenderErrors :
       LET done == postName(body, errors, currentStoredName, renderError)
       IN /\ response' = done.response
          /\ currentStoredName' = done.currentStoredName
  /\ ownName' = IF errors = <<>> THEN [ownName EXCEPT ![client] = SelectField(body, "fullName")]
                 ELSE ownName
  /\ pc' = "responded"
  /\ UNCHANGED <<route, session, submitted, body, mappings, errors, result, errorMessage,
                 thunkCalls, previous, accepted, client, apiVars>>

\* GET /change/person
GetPerson ==
  /\ Ready
  /\ \E renderError \in RenderErrors :
       /\ session' = getPerson(session, renderError).session
       /\ response' = getPerson(session, renderError).response
  /\ client' = 1
  /\ pc' = "responded"
  /\ route' = "getPerson"
  /\ submitted' = Undef
  /\ body' = Undef
  /\ errors' = <<>>
  /\ result' = Null
  /\ previous' = session
  /\ UNCHANGED <<mappings, errorMessage, thunkCalls, accepted, currentStoredName, ownName,
                 apiVars>>

\* POST /change/person arrives with the session of the client
SubmitPerson ==
  /\ Ready
  /\ \E b \in PersonBodies :
       /\ submitted' = b
       /\ body' = b
  /\ client' = 1
  /\ pc' = "received"
  /\ route' = "person"
  /\ errors' = <<>>
  /\ result' = Null
  /\ response' = Null
  /\ previous' = session
  /\ UNCHANGED <<session, mappings, errorMessage, thunkCalls, accepted, currentStoredName,
                 ownName, apiVars>>

PostPerson ==
  /\ pc = "validated"
  /\ route = "person"
  /\ \E renderError \in RenderErrors :
       /\ session' = postPerson(body, errors, session, renderError).session
       /\ response' = postPerson(body, errors, session, renderError).response
  /\ accepted' = IF errors = <<>> THEN extractFormFields(body, PersonFormKeys) ELSE accepted
  /\ result' = IF errors = <<>> THEN Null ELSE formatValidationErrors(errors)
  /\ pc' = "responded"
  /\ UNCHANGED <<route, submitted, body, mappings, errors, errorMessage, thunkCalls,
                 previous, currentStoredName, client, ownName, apiVars>>

ControllerNext ==
  \/ GetName
  \/ ReceiveName
  \/ ValidateName
  \/ PostName
  \/ GetPerson
  \/ SubmitPerson
  \/ ValidatePerson
  \/ PostPerson

ControllerSpec == ControllerInit /\ [][ControllerNext]_vars

(***************************************************************************)
(* The API middleware: createApiMiddleware and the interceptors it adds to *)
(* the axios instance of a request                                         *)
(***************************************************************************)
HTTP_UNAUTHORIZED == 401

\* an AxiosError: an Error that carries the response when there was one
AxiosError(message, resp) ==
  [t |-> "AxiosError", message |-> message,
   v |-> [k \in (IF resp = Undef THEN {} ELSE {"response"}) |-> resp]]

\* the response of the API
ApiResponse(status) == O([status |-> N(status)])

\* error instanceof Error
InstanceOfError(error) == error.t \in {"Error", "TypeError", "AxiosError"}

\* typeof error === 'object'
TypeOfObject(error) == error.t \in {"null", "object", "array", "Error", "TypeError", "AxiosError"}

\* toError wrapping every error, Error instances included
toErrorAlwaysWraps(error) ==
  Error(IF InstanceOfError(error) THEN "Error: " \o error.message ELSE JsString(error))

toError(error) == IF InstanceOfError(error) THEN error ELSE Error(JsString(error))

isAxiosErrorWithResponse(error) ==
  /\ error # Null
  /\ TypeOfObject(error)
  /\ "v" \in DOMAIN error /\ error.t # "array" /\ "response" \in DOMAIN error.v
  /\ error.v["response"] # Null
  /\ TypeOfObject(error.v["response"])
  /\ hasProperty(error.v["response"], "status")
  /\ error.v["response"].v["status"].t = "number"

\* the destructuring defaults of createApiMiddleware; authService is TRUE
\* when a service was given
createApiMiddleware(config) ==
  [enableLogging |-> IF config.enableLogging = Undef THEN TRUE ELSE config.enableLogging.v,
   authService |-> ~IsNullish(config.authService)]

devLog(text) == [level |-> "log", text |-> text]
devError(text) == [level |-> "error", text |-> text]

\* the method and url of the request, as the log lines print them
RequestLine == "GET /cases"

\* the fulfilled handler of the request logging interceptor
requestLogging(logs) == Append(logs, devLog("API Request: " \o RequestLine))

\* the fulfilled handler of the JWT request interceptor; headerFails when
\* authService.getAuthHeader() rejects
authRequest(enableLogging, headerFails, logs) ==
  IF headerFails
  THEN Append(logs, devError("Failed to add JWT authorization header: " \o "No token"))
  ELSE IF enableLogging
  THEN Append(logs, devLog("Added JWT authorization header to API request"))
  ELSE logs

\* the request interceptors, which axios runs last added first
requestInterceptors(cfg, headerFails) ==
  LET afterAuth == IF cfg.authService THEN authRequest(cfg.enableLogging, headerFails, <<>>)
                   ELSE <<>>
  IN IF cfg.enableLogging THEN requestLogging(afterAuth) ELSE afterAuth

\* the response logging interceptor on a settled promise
responseLogging(outcome, logs) ==
  IF ~outcome.rejected
  THEN [outcome |-> outcome,
        logs |-> Append(logs, devLog("API Response: "
                                       \o NatToString(outcome.value.v["status"].v)
                                       \o " " \o RequestLine))]
  ELSE [outcome |-> [rejected |-> TRUE, value |-> toError(outcome.value)],
        logs |-> Append(logs,
                   IF isAxiosErrorWithResponse(outcome.value)
                   THEN devError("API Response Error: "
                                   \o NatToString(outcome.value.v["response"].v["status"].v)
                                   \o " " \o RequestLine)
                   ELSE devError("API Network Error: " \o toError(outcome.value).message))]

\* the 401 response interceptor on a settled promise
unauthorizedInterceptor(outcome, enableLogging, logs, calls) ==
  IF ~outcome.rejected THEN [outcome |-> outcome, logs |-> logs, calls |-> calls]
  ELSE LET unauthorized ==
             /\ isAxiosErrorWithResponse(outcome.value)
             /\ outcome.value.v["response"].v["status"].v = HTTP_UNAUTHORIZED
       IN [outcome |-> [rejected |-> TRUE, value |-> toError(outcome.value)],
           logs |-> IF unauthorized /\ enableLogging
                    THEN Append(logs, devError("API returned 401 Unauthorized - clearing cached tokens"))
                    ELSE logs,
           calls |-> IF unauthorized THEN calls + 1 ELSE calls]

\* the configurations given to createApiMiddleware
ApiMiddlewareConfigs ==
  [enableLogging : {Undef, B(TRUE), B(FALSE)}, authService : {Undef, Null, O([name |-> S("auth")])}]

ApiStatuses == {400, 401, 403, 404, 500}

\* what a request can be rejected with: the AxiosError of a failed
\* response, of a request without response, and values that are no Error
ApiFailures ==
  {AxiosError("Request failed with status code " \o NatToString(st), ApiResponse(st)) :
     st \in ApiStatuses}
  \cup {AxiosError("Network Error", Undef), AxiosError("timeout of 5000ms exceeded", Undef)}
  \cup {S("aborted"), Null, O([response |-> ApiResponse(401)]), O([response |-> Null])}

\* what the adapter settles a request with
ApiResults ==
  {[rejected |-> FALSE, value |-> ApiResponse(200)]}
  \cup {[rejected |-> TRUE, value |-> e] : e \in ApiFailures}

\* the page requests, the session and the controllers play no part
ApiFrame == UNCHANGED <<reqVars, session, result, ctlVars>>

\* the application is configured with createApiMiddleware(config)
CreateApiMiddleware ==
  /\ apiPc = "none"
  /\ \E config \in ApiMiddlewareConfigs : apiConfig' = createApiMiddleware(config)
  /\ apiPc' = "ready"
  /\ UNCHANGED <<apiError, apiOutcome, clearTokensCalls, devLogs>>
  /\ ApiFrame

\* a request is made with req.axiosMiddleware: the request interceptors
\* run and the adapter settles the request
SendRequest ==
  /\ apiPc \in {"ready", "fulfilled", "rejected"}
  /\ \E headerFails \in BOOLEAN : devLogs' = requestInterceptors(apiConfig, headerFails)
  /\ \E r \in ApiResults :
       /\ apiOutcome' = r
       /\ apiError' = r
  /\ clearTokensCalls' = 0
  /\ apiPc' = "sent"
  /\ UNCHANGED apiConfig
  /\ ApiFrame

\* the response logging interceptor, added when logging is enabled
ResponseLogging ==
  /\ apiPc = "sent"
  /\ apiConfig.enableLogging
  /\ apiOutcome' = responseLogging(apiOutcome, devLogs).outcome
  /\ devLogs' = responseLogging(apiOutcome, devLogs).logs
  /\ apiPc' = "logged"
  /\ UNCHANGED <<apiConfig, apiError, clearTokensCalls>>
  /\ ApiFrame

\* the 401 response interceptor, added when an auth service was given
Unauthorized ==
  /\ apiConfig # Null /\ apiConfig.authService
  /\ apiPc = (IF apiConfig.enableLogging THEN "logged" ELSE "sent")
  /\ LET done == unauthorizedInterceptor(apiOutcome, apiConfig.enableLogging, devLogs,
                                         clearTokensCalls)
     IN /\ apiOutcome' = done.outcome
        /\ devLogs' = done.logs
        /\ clearTokensCalls' = done.calls
  /\ apiPc' = "handled"
  /\ UNCHANGED <<apiConfig, apiError>>
  /\ ApiFrame

\* the caller's promise settles after the last interceptor
Settle ==
  /\ apiConfig # Null
  /\ apiPc = (IF apiConfig.authService THEN "handled"
              ELSE IF apiConfig.enableLogging THEN "logged" ELSE "sent")
  /\ apiPc' = IF apiOutcome.rejected THEN "rejected" ELSE "fulfilled"
  /\ UNCHANGED <<apiConfig, apiError, apiOutcome, clearTokensCalls, devLogs>>
  /\ ApiFrame

ApiNext ==
  \/ CreateApiMiddleware
  \/ SendRequest
  \/ ResponseLogging
  \/ Unauthorized
  \/ Settle

ApiSpec == Init /\ [][ApiNext]_vars

(***************************************************************************)
(* Properties                                                              *)
(***************************************************************************)
\* validatePerson has run on the request
PersonValidated == route = "person" /\ pc \in {"validated", "formatted"}

\* the validation errors of one field, in the order they were reported
ErrorsOf(path) == SelectSeq(errors, LAMBDA e : fieldNameOf(e) = path)

\* the TypedValidationError messages of a field's errors
MessagesOf(path) == {ErrorsOf(path)[i].msg : i \in 1..Len(ErrorsOf(path))}

\* the text of a submitted value: a string as it is, a number or boolean in
\* its decimal or true/false form
TextOf(x) ==
  IF x.t = "string" THEN x.v
  ELSE IF x.t = "number" THEN NumberToString(x.v)
  ELSE IF x.v THEN "true" ELSE "false"

IsText(x) == x.t \in {"string", "number", "boolean"}

\* a submitted field with no text in it: absent, null or white space only
IsBlank(x) == x.t \in {"undefined", "null"} \/ (x.t = "string" /\ Trim(x.v) = "")

\* day, month and year, as texts, name a day of the calendar
IsRealDate(day, month, year) ==
  /\ Len(day) \in 1..2 /\ Len(month) \in 1..2 /\ Len(year) = 4
  /\ AllDigits(day) /\ AllDigits(month) /\ AllDigits(year)
  /\ DigitPrefix(month, 0) \in 1..12
  /\ DigitPrefix(day, 0) >= 1
  /\ DigitPrefix(day, 0) <=
       (IF DigitPrefix(month, 0) = 2
        THEN (IF DigitPrefix(year, 0) % 400 = 0
                 \/ (DigitPrefix(year, 0) % 4 = 0 /\ DigitPrefix(year, 0) % 100 # 0)
              THEN 29 ELSE 28)
        ELSE IF DigitPrefix(month, 0) \in {4, 6, 9, 11} THEN 30 ELSE 31)

\* the original value the session records for a field, Undef when there is
\* no session, no snapshot or no entry
StoredOriginal(sess, field) ==
  IF sess.t = "object" /\ "personOriginal" \in DOMAIN sess.v
     /\ sess.v["personOriginal"].t = "object"
     /\ field \in DOMAIN sess.v["personOriginal"].v
  THEN sess.v["personOriginal"].v[field]
  ELSE Undef

C1_Precondition ==
  /\ submitted.t = "object"
  /\ LET f(k) == SelectField(submitted, k)
         day == f("dateOfBirth-day")
         month == f("dateOfBirth-month")
         year == f("dateOfBirth-year")
     IN /\ IsText(f("fullName")) /\ Trim(TextOf(f("fullName"))) # ""
        /\ IsText(f("address")) /\ Trim(TextOf(f("address"))) # ""
        /\ f("contactPreference").t = "string"
        /\ f("contactPreference").v \in {"email", "phone", "post"}
        /\ f("priority").t = "string"
        /\ f("priority").v \in {"low", "medium", "high", "urgent"}
        /\ f("communicationMethods").t = "array"
        /\ Len(f("communicationMethods").v) >= 1
        /\ \/ IsBlank(day) /\ IsBlank(month) /\ IsBlank(year)
           \/ /\ IsText(day) /\ IsText(month) /\ IsText(year)
              /\ IsRealDate(Trim(TextOf(day)), Trim(TextOf(month)), Trim(TextOf(year)))
        /\ f("contactPreference") # StoredOriginal(session, "contactPreference")
        /\ f("priority") # StoredOriginal(session, "priority")

\* C1: a submission whose fullName and address are non-empty after trim,
\* whose contactPreference and priority are allowed values different from
\* the stored originals, whose communicationMethods is a non-empty array and
\* whose date of birth is all empty or a real date has no validation failure.
C1_ValidSubmissionPasses ==
  (PersonValidated /\ C1_Precondition) => errors = <<>>

\* a valid submission with a real date of birth and a stored snapshot
C1_Witness ==
  /\ PersonValidated
  /\ C1_Precondition
  /\ SelectField(submitted, "dateOfBirth-day") = S("31")
  /\ StoredOriginal(session, "contactPreference") = S("email")
  /\ errors = <<>>

\* the fields with an entry in the error summary, entry by entry
SummaryFields ==
  [i \in 1..Len(result.errorSummaryList) |-> result.errorSummaryList[i].href]

\* C2: after validatePerson and formatValidationErrors no field has more
\* than one errorSummaryList entry, and every field that failed has one.
C2_OneSummaryEntryPerField ==
  (route = "person" /\ pc = "formatted") =>
    /\ \A i, j \in 1..Len(SummaryFields) : SummaryFields[i] = SummaryFields[j] => i = j
    /\ \A k \in 1..Len(errors) :
         \E i \in 1..Len(SummaryFields) : SummaryFields[i] = "#" \o errors[k].path

\* position of a field in the schema
FieldIndex(path) == CHOOSE i \in 1..Len(FieldOrder) : FieldOrder[i] = path

\* C3: the failures of validatePerson, and with them the errorSummaryList
\* entries, are in field-declaration order.
C3_FailuresInDeclarationOrder ==
  PersonValidated =>
    /\ \A i, j \in 1..Len(errors) :
         i < j => FieldIndex(errors[i].path) <= FieldIndex(errors[j].path)
    /\ pc = "formatted" =>
         /\ Len(SummaryFields) = Len(errors)
         /\ \A i \in 1..Len(errors) : SummaryFields[i] = "#" \o errors[i].path

\* failures of the first field, of fields in the middle and of the last one
C3_Witness ==
  /\ route = "person"
  /\ pc = "formatted"
  /\ {"fullName", "contactPreference", "dateOfBirth-month", "validDate"}
       \subseteq {errors[i].path : i \in 1..Len(errors)}
  /\ Len(result.errorSummaryList) = Len(errors)

\* the summary and inline message of a failure: those of its structured
\* message, else the ones formatValidationError derives from the message
SummaryMessageOf(e) ==
  IF e.msg.t = "TypedValidationError" THEN e.msg.summaryMessage
  ELSE formatValidationError(e).summaryMessage

InlineMessageOf(e) ==
  IF e.msg.t = "TypedValidationError" THEN e.msg.inlineMessage
  ELSE formatValidationError(e).inlineMessage

\* the field a failure names, 'unknown' when it names none
FieldNameOf(e) == IF "path" \in DOMAIN e THEN e.path ELSE "unknown"

\* C4: formatValidationErrors never drops a failure: errorSummaryList has
\* one entry per failure, in the same order, with the failure's summary
\* message as text and '#' and the failure's field name as href; an empty
\* result gives an empty list and an empty inputErrors.
C4_NoFailureDropped ==
  pc = "formatted" =>
    /\ Len(result.errorSummaryList) = Len(errors)
    /\ \A i \in 1..Len(errors) :
         /\ result.errorSummaryList[i].text = SummaryMessageOf(errors[i])
         /\ result.errorSummaryList[i].href = "#" \o FieldNameOf(errors[i])
    /\ errors = <<>> =>
         (result.errorSummaryList = <<>> /\ DOMAIN result.inputErrors = {})

\* two failures of one field, the first with an empty inline message, both
\* in the summary
C4_Witness ==
  /\ route = "result"
  /\ pc = "formatted"
  /\ Len(errors) = 2
  /\ errors[1] = FieldError("field1", TypedValidationError("Summary only error", ""))
  /\ errors[2].msg = S("Simple error message")
  /\ result.errorSummaryList =
       <<[text |-> "Summary only error", href |-> "#field1"],
         [text |-> "Simple error message", href |-> "#field1"]>>

\* C5 as stated: a failure's field is left out of inputErrors if and only if
\* the failure's inline message is the empty string, and the failure's
\* errorSummaryList entry is there in either case.
C5_OmittedIffInlineEmpty ==
  pc = "formatted" =>
    /\ Len(result.errorSummaryList) = Len(errors)
    /\ \A i \in 1..Len(errors) :
         (FieldNameOf(errors[i]) \notin DOMAIN result.inputErrors)
           <=> (InlineMessageOf(errors[i]) = "")

\* C5 amended: a field is left out of inputErrors if and only if every
\* failure of the field has an inline message that is empty after trimming
\* white space; a field that is kept holds the inline message of its last
\* failure with such a message; every failure has its errorSummaryList entry.
C5_OmittedIffEveryInlineBlank ==
  pc = "formatted" =>
    LET named == {i \in 1..Len(errors) : Trim(InlineMessageOf(errors[i])) # ""}
    IN /\ Len(result.errorSummaryList) = Len(errors)
       /\ DOMAIN result.inputErrors = {FieldNameOf(errors[i]) : i \in named}
       /\ \A i \in named :
            (\A j \in named : FieldNameOf(errors[j]) = FieldNameOf(errors[i]) => j <= i)
              => result.inputErrors[FieldNameOf(errors[i])] = InlineMessageOf(errors[i])

\* a failure with a white space inline message next to a failure with a
\* text: the first field is left out, both are in the summary
C5_Witness ==
  /\ route = "result"
  /\ pc = "formatted"
  /\ Len(errors) = 2
  /\ errors[1] = FieldError("field2", TypedValidationError("Summary only error", " \t"))
  /\ errors[2] =
       FieldError("field1", TypedValidationError("Field1 summary error", "Field1 inline error"))
  /\ DOMAIN result.inputErrors = {"field1"}
  /\ Len(result.errorSummaryList) = 2

\* the failure of a field with one text as summary and inline message
Failure(path, text) == FieldError(path, TypedValidationError(text, text))

\* what C6 says of one required string field, for a submitted value that is
\* absent, null, a string, a number or a boolean
RequiredStringRule(path, text) ==
  LET raw == SelectField(submitted, path)
  IN (submitted.t = "object" /\ (IsNullish(raw) \/ IsText(raw))) =>
       IF IsNullish(raw) \/ Len(Trim(TextOf(raw))) = 0
       THEN ErrorsOf(path) = <<Failure(path, text)>>
       ELSE /\ ErrorsOf(path) = <<>>
            /\ SelectField(body, path) = S(Trim(TextOf(raw)))

\* C6: fullName and address have their notEmpty failure ('Enter your full
\* name', 'Enter your address', as summary and as inline message) if and
\* only if the value is absent, null or of zero length after trimming;
\* otherwise the field has no failure and the body holds the trimmed value.
C6_RequiredStrings ==
  PersonValidated =>
    /\ RequiredStringRule("fullName", "Enter your full name")
    /\ RequiredStringRule("address", "Enter your address")

\* a name with white space around it is kept trimmed, next to an empty address
C6_Witness ==
  /\ PersonValidated
  /\ SelectField(submitted, "fullName") = S(" Al ")
  /\ SelectField(body, "fullName") = S("Al")
  /\ ErrorsOf("fullName") = <<>>
  /\ SelectField(submitted, "address") = S("")
  /\ ErrorsOf("address") = <<Failure("address", "Enter your address")>>

\* the failure messages of an enum field
NotEmptyOf(path) == TypedMessage("forms." \o path \o ".validationError.notEmpty")
InvalidOptionOf(path) == TypedMessage("forms." \o path \o ".validationError.invalidOption")
NotChangedOf(path) == TypedMessage("forms." \o path \o ".validationError.notChanged")

\* what C7 says of one enum field, for a submitted value that is absent or
\* a string
EnumRule(path, allowed) ==
  LET raw == SelectField(submitted, path)
  IN (submitted.t = "object" /\ raw.t \in {"undefined", "string"}) =>
       IF raw.t = "undefined" \/ raw.v = ""
       THEN NotEmptyOf(path) \in MessagesOf(path) /\ InvalidOptionOf(path) \notin MessagesOf(path)
       ELSE IF raw.v \notin allowed
       THEN InvalidOptionOf(path) \in MessagesOf(path) /\ NotEmptyOf(path) \notin MessagesOf(path)
       ELSE NotEmptyOf(path) \notin MessagesOf(path) /\ InvalidOptionOf(path) \notin MessagesOf(path)

\* C7: for contactPreference and priority an absent or empty value has the
\* notEmpty failure and no invalidOption failure, a non-empty value outside
\* the allowed set has the invalidOption failure and no notEmpty failure, and
\* a value inside the allowed set has neither.
C7_EnumFailures ==
  PersonValidated =>
    /\ EnumRule("contactPreference", {"email", "phone", "post"})
    /\ EnumRule("priority", {"low", "medium", "high", "urgent"})

\* C8: when the session's original snapshot holds an allowed
\* contactPreference and the submitted contactPreference is identical to it,
\* contactPreference has exactly one failure, the notChanged failure.
C8_IdenticalContactPreference ==
  (/\ PersonValidated
   /\ submitted.t = "object"
   /\ StoredOriginal(session, "contactPreference").t = "string"
   /\ StoredOriginal(session, "contactPreference").v \in {"email", "phone", "post"}
   /\ SelectField(submitted, "contactPreference") = StoredOriginal(session, "contactPreference"))
    => ErrorsOf("contactPreference") =
         <<FieldError("contactPreference", NotChangedOf("contactPreference"))>>

\* 'phone' is submitted again over a stored 'phone'
C8_Witness ==
  /\ PersonValidated
  /\ StoredOriginal(session, "contactPreference") = S("phone")
  /\ SelectField(submitted, "contactPreference") = S("phone")
  /\ Len(ErrorsOf("contactPreference")) = 1

\* the change detection middleware has run on the request
ChangeValidated == route = "change" /\ pc \in {"validated", "formatted"}

\* a key the submitted body does not have
Absent(key) == ~(submitted.t = "object" /\ key \in DOMAIN submitted.v)

\* the submitted value of a key, Undef for a key the body does not have
Submitted(key) == IF Absent(key) THEN Undef ELSE submitted.v[key]

\* the failure of a change detection schema
NoChangesDetected ==
  FieldError("notChanged", TypedValidationError("No changes detected", "Please make changes"))

\* a text trimmed and in lower case, with '', 'false' and 'off' as the
\* canonical false-string and 'on', 'true' and '1' as the canonical
\* true-string
CanonText(text) ==
  LET u == ToLowerCase(Trim(text))
  IN IF u \in {"", "false", "off"} THEN "false"
     ELSE IF u \in {"on", "true", "1"} THEN "true"
     ELSE u

\* normalization as C10 states it: a missing, null or undefined field is the
\* false-string, any other value its text, trimmed and in lower case
StatedNormal(x) == IF IsNullish(x) THEN "false" ELSE CanonText(JsString(x))

\* the values that count as missing besides null and undefined: the number
\* 0, false, and an object or array without members
CountsAsMissing(x) ==
  \/ IsNullish(x)
  \/ (x.t = "number" /\ x.v = 0)
  \/ (x.t = "boolean" /\ x.v = FALSE)
  \/ (x.t = "object" /\ DOMAIN x.v = {})
  \/ (x.t = "array" /\ Len(x.v) = 0)

\* normalization with these values as missing and an object or array as its
\* JSON text
AmendedNormal(x) ==
  IF CountsAsMissing(x) THEN "false"
  ELSE IF x.t \in {"object", "array"} THEN CanonText(jsonStringify(x))
  ELSE CanonText(JsString(x))

\* no failure of the enum change rule where the session records no original
NoOriginalNoNotChanged ==
  PersonValidated =>
    \A path \in {"contactPreference", "priority"} :
      StoredOriginal(session, path) = Undef => NotChangedOf(path) \notin MessagesOf(path)

C10_PassesIffSomePairDiffers ==
  ChangeValidated =>
    (errors = <<>> <=>
       \E i \in 1..Len(mappings) :
         StatedNormal(Submitted(mappings[i].current))
           # StatedNormal(Submitted(mappings[i].original)))

\* C10 amended: the validator passes if and only if the body is not an
\* object or the normalized values of some mapped pair differ, where the
\* number 0, false and an empty object or array are normalized like a
\* missing field and a non-empty object or array like its JSON text.
C10_PassesIffNoObjectOrSomePairDiffers ==
  ChangeValidated =>
    /\ errors \in {<<>>, <<NoChangesDetected>>}
    /\ errors = <<>> <=>
         \/ submitted.t # "object"
         \/ \E i \in 1..Len(mappings) :
              AmendedNormal(Submitted(mappings[i].current))
                # AmendedNormal(Submitted(mappings[i].original))

\* a second pair differs in 'on' against a missing original while the
\* first pair is unchanged
C10_Witness ==
  /\ ChangeValidated
  /\ Len(mappings) = 2
  /\ Submitted(mappings[1].current) = S("abc")
  /\ Submitted(mappings[1].original) = S("abc")
  /\ Submitted(mappings[2].current) = S("on")
  /\ Absent(mappings[2].original)
  /\ errors = <<>>

\* the date of birth fields as submitted
SubmittedDay == Submitted("dateOfBirth-day")
SubmittedMonth == Submitted("dateOfBirth-month")
SubmittedYear == Submitted("dateOfBirth-year")

DatePaths == {"dateOfBirth-day", "dateOfBirth-month", "dateOfBirth-year", "validDate"}

\* a date sub-field without a text in it: absent, null, white space only, or
\* an array, which the validator reads as no text
DateEmpty(x) == IsBlank(x) \/ x.t = "array"

\* a date sub-field with a text in it: a string with more than white space,
\* a number or a boolean
DateFilled(x) == IsText(x) /\ Trim(TextOf(x)) # ""

\* the required failure of a date sub-field
RequiredFailure(part) ==
  Failure("dateOfBirth-" \o part, "Date of birth must include a " \o part)

\* C11: when the three date sub-fields are all absent or empty after trim,
\* validatePerson has no failure for dateOfBirth-day, dateOfBirth-month,
\* dateOfBirth-year or validDate, whatever the other fields are.
C11_EmptyDateSkipped ==
  (/\ PersonValidated
   /\ submitted.t = "object"
   /\ DateEmpty(SubmittedDay) /\ DateEmpty(SubmittedMonth) /\ DateEmpty(SubmittedYear))
    => \A path \in DatePaths : ErrorsOf(path) = <<>>

\* a date of birth of white space only, in a submission without an address
C11_Witness ==
  /\ PersonValidated
  /\ SubmittedDay = S(" ")
  /\ SubmittedMonth = S("")
  /\ SubmittedYear = Undef
  /\ ErrorsOf("address") # <<>>
  /\ \A path \in DatePaths : ErrorsOf(path) = <<>>

\* what C12 says of one date sub-field of a partly filled date
PartlyFilledRule(part, x) ==
  LET path == "dateOfBirth-" \o part
  IN IF DateEmpty(x) THEN ErrorsOf(path) = <<RequiredFailure(part)>>
     ELSE \A i \in 1..Len(ErrorsOf(path)) : ErrorsOf(path)[i] # RequiredFailure(part)

RealDateFailure == Failure("validDate", "Enter a real date of birth")

\* a component check has failed
ComponentFailed ==
  \E path \in {"dateOfBirth-day", "dateOfBirth-month", "dateOfBirth-year"} :
    ErrorsOf(path) # <<>>

\* C13: validDate reports a failure only when day, month and year each pass
\* their own check: when a component check fails there is no validDate
\* failure, and there is at most one validDate failure per submission.
C13_ValidDateAfterComponents ==
  PersonValidated =>
    /\ Len(ErrorsOf("validDate")) <= 1
    /\ ComponentFailed => ErrorsOf("validDate") = <<>>

\* the text of a date sub-field, trimmed
DateText(x) == Trim(TextOf(x))

\* a sub-field given as a plain integer: the decimal digits of a number
PlainInteger(x) ==
  /\ IsText(x)
  /\ DateText(x) # ""
  /\ AllDigits(DateText(x))
  /\ NatToString(DigitPrefix(DateText(x), 0)) = DateText(x)

\* the sub-fields are plain integers that pass their component checks
PlainDate ==
  /\ submitted.t = "object"
  /\ PlainInteger(SubmittedDay) /\ PlainInteger(SubmittedMonth) /\ PlainInteger(SubmittedYear)
  /\ DigitPrefix(DateText(SubmittedDay), 0) \in 1..31
  /\ DigitPrefix(DateText(SubmittedMonth), 0) \in 1..12
  /\ Len(DateText(SubmittedYear)) = 4

\* C14: for day, month and year given as plain integers that pass their
\* component checks, validatePerson reports the validDate failure if and
\* only if they are not a day of the calendar: 29 February only in leap
\* years, no day 31 in a month of 30 days.
C14_RealDateOnly ==
  (PersonValidated /\ PlainDate) =>
    /\ ~ComponentFailed
    /\ IF IsRealDate(DateText(SubmittedDay), DateText(SubmittedMonth), DateText(SubmittedYear))
       THEN ErrorsOf("validDate") = <<>>
       ELSE ErrorsOf("validDate") = <<RealDateFailure>>

\* 29 February 1999 is refused
C14_Witness ==
  /\ PersonValidated
  /\ SubmittedDay = S("29")
  /\ SubmittedMonth = S("2")
  /\ SubmittedYear = S("1999")
  /\ ~ComponentFailed
  /\ ErrorsOf("validDate") = <<RealDateFailure>>

RequiredStringFailures(path, text) ==
  IF IsNullish(Submitted(path)) \/ Trim(TextOf(Submitted(path))) = ""
  THEN <<Failure(path, text)>>
  ELSE <<>>

\* C16: for a submission that holds fullName and address and nothing else,
\* the failure list has one failure for each of the two that is empty after
\* trim and no other failure.
C16_OnlyNameAndAddress ==
  (/\ PersonValidated
   /\ submitted.t = "object"
   /\ DOMAIN submitted.v = {"fullName", "address"}
   /\ \A path \in {"fullName", "address"} :
        IsNullish(Submitted(path)) \/ IsText(Submitted(path)))
    => errors = RequiredStringFailures("fullName", "Enter your full name")
                  \o RequiredStringFailures("address", "Enter your address")

\* a message that is not a structured error: no TypedValidationError and
\* no object with the fields summaryMessage and inlineMessage
Unstructured(m) ==
  /\ m.t # "TypedValidationError"
  /\ ~(m.t = "object" /\ {"summaryMessage", "inlineMessage"} \subseteq DOMAIN m.v)

\* failure i is the last failure of its field
LastOfField(i) ==
  \A j \in 1..Len(errors) : FieldNameOf(errors[j]) = FieldNameOf(errors[i]) => j <= i

\* failure i was formatted with text as summary and as inline message: the
\* text is in its summary entry and, for the last failure of a field, in
\* the field's inline error
FormattedAs(i, text) ==
  /\ result.errorSummaryList[i].text = text
  /\ (LastOfField(i) /\ Trim(text) # "") =>
       /\ FieldNameOf(errors[i]) \in DOMAIN result.inputErrors
       /\ result.inputErrors[FieldNameOf(errors[i])] = text

\* a non-empty string verbatim, else 'Invalid value'
VerbatimOrDefault(m) == IF m.t = "string" /\ m.v # "" THEN m.v ELSE "Invalid value"

\* C17 as stated: of a message that is not structured, a bare non-empty
\* string becomes summary and inline message verbatim, and a message that
\* is empty, falsy or not a string makes both 'Invalid value'.
C17_StringOrInvalidValue ==
  pc = "formatted" =>
    \A i \in 1..Len(errors) :
      Unstructured(errors[i].msg) => FormattedAs(i, VerbatimOrDefault(errors[i].msg))

\* C17 amended: a bare non-empty string becomes summary and inline message
\* verbatim, and a message that is the empty string, null, undefined, 0,
\* false or an object or array without members makes both 'Invalid value'.
C17_StringOrFalsyInvalidValue ==
  pc = "formatted" =>
    \A i \in 1..Len(errors) :
      (/\ Unstructured(errors[i].msg)
       /\ (errors[i].msg.t = "string" \/ CountsAsMissing(errors[i].msg)))
        => FormattedAs(i, VerbatimOrDefault(errors[i].msg))

\* a bare string and false as messages of two fields
C17_Witness ==
  /\ pc = "formatted"
  /\ errors = <<FieldError("field1", S("Simple error message")), FieldError("field2", B(FALSE))>>
  /\ result.errorSummaryList =
       <<[text |-> "Simple error message", href |-> "#field1"],
         [text |-> "Invalid value", href |-> "#field2"]>>
  /\ result.inputErrors["field2"] = "Invalid value"

\* a truthy message that is no string and has no summaryMessage and
\* inlineMessage: a number but 0, true, an object with a toString of its own
TruthyNonString(m) ==
  \/ (m.t = "number" /\ m.v # 0)
  \/ (m.t = "boolean" /\ m.v)
  \/ (m.t = "object" /\ "toString" \in DOMAIN m.v /\ m.v["toString"].t = "function"
        /\ Unstructured(m))

\* String(m) of such a message
StringOf(m) ==
  IF m.t = "number" THEN NumberToString(m.v)
  ELSE IF m.t = "boolean" THEN "true"
  ELSE m.v["toString"].v

\* C18: a truthy non-string message without summaryMessage and
\* inlineMessage (a number, true, an object with its own toString) is
\* formatted with String(m) as summary and as inline message.
C18_TruthyNonStringAsString ==
  pc = "formatted" =>
    \A i \in 1..Len(errors) :
      TruthyNonString(errors[i].msg) => FormattedAs(i, StringOf(errors[i].msg))

\* what C19 says the sanitizers of a required string field leave in the
\* body; the value the body holds for an absent or null field is the value
\* itself or, once trimmed, the empty string
SanitizerRule(path) ==
  LET raw == Submitted(path)
      out == SelectField(body, path)
  IN CASE IsNullish(raw) -> out \in {raw, S("")}
       [] raw.t = "string" -> out = S(Trim(raw.v))
       [] raw.t \in {"number", "boolean"} -> out = S(TextOf(raw))
       [] raw.t = "object" -> out = S("")
       [] raw.t = "array" -> out = S(JsString(raw))

\* C19: the sanitizer of fullName and address leaves null and undefined as
\* no value, a string as its trimmed text, a number or boolean as its
\* string form, a plain object as the empty string and an array as its
\* string form.
C19_SanitizedValue ==
  (PersonValidated /\ submitted.t = "object") =>
    SanitizerRule("fullName") /\ SanitizerRule("address")

\* the failures of a submission without any field
AbsentFailures ==
  <<Failure("fullName", "Enter your full name"),
    Failure("address", "Enter your address"),
    FieldError("contactPreference", NotEmptyOf("contactPreference")),
    FieldError("contactPreference", InvalidOptionOf("contactPreference")),
    FieldError("priority", NotEmptyOf("priority")),
    FieldError("priority", InvalidOptionOf("priority")),
    FieldError("communicationMethods", NotEmptyOf("communicationMethods"))>>

\* C20: validatePerson raises no exception, and on a body that is not an
\* object (undefined, null, a string, an array), with or without a session,
\* it produces the failure list of the empty object body: every field
\* absent and no date failure.
C20_NonObjectBody ==
  PersonValidated =>
    /\ \A i \in 1..Len(errors) : errors[i].msg # TypeError
    /\ (submitted.t # "object" \/ submitted = EmptyObject) => errors = AbsentFailures

\* a string as body, in a request without a session
C20_Witness ==
  /\ PersonValidated
  /\ submitted = S("fullName=Al")
  /\ session = Undef
  /\ errors = AbsentFailures

\* C21: clearAllOriginalFormData removes exactly the session keys whose name
\* contains 'Original', whatever their value, and leaves every other key
\* with its value; afterwards getSessionData gives null for every such
\* namespace and what it gave before for every other namespace.
C21_ClearsExactlyOriginalKeys ==
  route = "clearAllOriginalFormData" =>
    /\ KeysOf(session) = {k \in KeysOf(previous) : ~Includes(k, "Original")}
    /\ \A k \in KeysOf(session) : session.v[k] = previous.v[k]
    /\ \A namespace \in Namespaces :
         getSessionData(session, namespace) =
           IF Includes(namespace, "Original") THEN Null
           ELSE getSessionData(previous, namespace)

\* a snapshot, a string under an 'Original' key, and data under the keys
\* 'originalUser' and 'person', cleared
C21_Witness ==
  /\ route = "clearAllOriginalFormData"
  /\ Prop(previous, "personOriginal") = O([fullName |-> S("John Doe"), age |-> S("25"),
                                           empty |-> S("")])
  /\ Prop(previous, "OriginalNote") = S("string value")
  /\ Prop(previous, "originalUser") = O([fullName |-> S("John Smith")])
  /\ KeysOf(session) = {"originalUser", "person"}
  /\ getSessionData(session, "person") = O([fullName |-> S("John Smith")])

\* a controller has answered the request
Responded == pc = "responded" /\ route \in {"getName", "name", "getPerson", "person"}

\* C22: when an exception is raised inside getName, postName, getPerson or
\* postPerson, the controller calls next once, with that error, and throws
\* nothing itself; when none is raised, next is not called.
C22_ExceptionPassedToNext ==
  Responded =>
    /\ response.rethrown = Null
    /\ response.next = IF response.raised = Null THEN <<>> ELSE <<response.raised>>

\* render throws in postPerson after the person data were stored
C22_Witness ==
  /\ Responded
  /\ route = "person"
  /\ errors = <<>>
  /\ response.raised = Error("Template render error")
  /\ response.next = <<Error("Template render error")>>

\* the messages that are thunks
Lazy == {k \in {"summaryMessage", "inlineMessage"} : errorMessage[k].t = "function"}

\* C23: a message given to createChangeDetectionValidator as a thunk is
\* called once when the rule has failed, and is not called before the rule
\* has run or when the rule has passed; a message given as a string makes
\* no call.
C23_ThunkCalledOncePerFailure ==
  route = "change" =>
    \A k \in {"summaryMessage", "inlineMessage"} :
      thunkCalls[k] = IF k \in Lazy /\ ChangeValidated /\ errors # <<>> THEN 1 ELSE 0

\* the summary message is a thunk, the inline message a string, and the
\* rule has failed on two equal values
C23_Witness ==
  /\ ChangeValidated
  /\ Lazy = {"summaryMessage"}
  /\ Submitted("field1") = S("abc")
  /\ Submitted("original1") = S("abc")
  /\ errors = <<NoChangesDetected>>
  /\ thunkCalls = [summaryMessage |-> 1, inlineMessage |-> 0]

\* postPerson has answered a submission that failed validation
PersonRejected == Responded /\ route = "person" /\ errors # <<>>

\* the form fields as validatePerson left them in the body
SanitizedFields ==
  [k \in {PersonFormKeys[i] : i \in 1..Len(PersonFormKeys)} |->
     IF k \in KeysOf(body) THEN body.v[k] ELSE S("")]

ShowsCurrentPerson ==
  /\ Responded
  /\ accepted # Null
  /\ response.raised = Null
  /\ \/ route = "getPerson"
     \/ route = "person" /\ errors = <<>>

\* the value the page shows for a form field
ShownFor(key) ==
  CASE key = "fullName" -> response.locals.currentName
    [] key = "address" -> response.locals.currentAddress
    [] key = "contactPreference" -> response.locals.currentContactPreference
    [] key = "priority" -> response.locals.currentPriority
    [] key = "dateOfBirth-day" -> Prop(response.locals.currentDateOfBirth, "day")
    [] key = "dateOfBirth-month" -> Prop(response.locals.currentDateOfBirth, "month")
    [] key = "dateOfBirth-year" -> Prop(response.locals.currentDateOfBirth, "year")

\* C25: after an accepted submission, the answer to it and the answer to a
\* following GET show, for every form field submitted with a value, that
\* value as the current person data.
C25_AcceptedValuesShown ==
  ShowsCurrentPerson =>
    \A key \in KeysOf(accepted) :
      accepted.v[key] # S("") => ShownFor(key) = accepted.v[key]

\* validatePerson has run on a submission to the person form of the session
PersonSubmissionValidated == route = "person" /\ pc = "validated"

\* the person data stored for the session, as the person page would show it
StoredNow(field) == getCurrentPersonData(session)[field]

\* C26: when a submission has been validated, the snapshot personOriginal
\* holds the contactPreference and priority stored for the session, and the
\* submission is rejected as notChanged for such a field exactly when it
\* submits the stored value.
C26_RejectedIffEqualsStored ==
  PersonSubmissionValidated =>
    \A field \in {"contactPreference", "priority"} :
      /\ StoredOriginal(session, field) = StoredNow(field)
      /\ (\E i \in 1..Len(errors) : errors[i] = FieldError(field, NotChangedOf(field)))
           <=> (SelectField(body, field) = StoredNow(field))

\* the name page has been rendered for a client
NameShown ==
  Responded /\ route \in {"getName", "name"} /\ response.raised = Null

\* C27: the current name a client is shown by getName or postName is the
\* name that client submitted last, and the default name before it has
\* submitted any: a submission of another client does not change it.
C27_NameOfOwnSession ==
  NameShown => response.locals.currentName = ownName[client]

\* the change rule of an enum field has failed
NotChangedReported(field) ==
  \E i \in 1..Len(errors) : errors[i] = FieldError(field, NotChangedOf(field))

\* hasChanged of the change detection validator (personSchema.ts line 698)
\* applied to a submitted value and a recorded original
NormalizedEqual(value, original) ==
  normalizeBooleanValue(value) = normalizeBooleanValue(original)

\* C28 as stated: the change rule of contactPreference and of priority
\* fails exactly when an original is recorded and the trimmed, lower-cased,
\* boolean-normalized submitted value equals the normalized original.
C28_RuleDecidesAsHasChanged ==
  PersonSubmissionValidated =>
    \A field \in {"contactPreference", "priority"} :
      NotChangedReported(field)
        <=> /\ ~IsNullish(StoredOriginal(session, field))
            /\ NormalizedEqual(SelectField(body, field), StoredOriginal(session, field))

\* C28 (amended): the change rule of contactPreference and of priority
\* fails exactly when an original is recorded and the submitted value is
\* strictly equal to it, untrimmed and in its own case; a failure of the
\* rule implies that the normalized values are equal, not the converse.
C28_RuleFailsIffStrictlyEqual ==
  PersonSubmissionValidated =>
    \A field \in {"contactPreference", "priority"} :
      /\ NotChangedReported(field)
           <=> /\ ~IsNullish(StoredOriginal(session, field))
               /\ SelectField(body, field) = StoredOriginal(session, field)
      /\ NotChangedReported(field)
           => NormalizedEqual(SelectField(body, field), StoredOriginal(session, field))

\* ' Email' was submitted against a stored 'email' and counts as changed
C28_Witness ==
  /\ PersonSubmissionValidated
  /\ SelectField(body, "contactPreference") = S(" Email")
  /\ StoredOriginal(session, "contactPreference") = S("email")
  /\ ~NotChangedReported("contactPreference")

\* postName answers a submission that validateName has rejected
NameRejected ==
  /\ route = "name" /\ pc = "validated" /\ errors # <<>>
  /\ pc' = "responded" /\ response'.raised = Null

\* C29: a submission whose fullName is absent or empty after trimming is
\* answered with status 400, the message 'Enter your full name' next to the
\* field and as the text of the only summary entry, whose link is
\* '#fullName', and the stored name stays as it was.
C29_RejectedNameReported ==
  [][NameRejected =>
       /\ response'.status = 400
       /\ response'.locals.error.inputErrors["fullName"] = "Enter your full name"
       /\ Len(response'.locals.error.errorSummaryList) = 1
       /\ response'.locals.error.errorSummaryList[1].text = "Enter your full name"
       /\ response'.locals.error.errorSummaryList[1].href = "#fullName"
       /\ currentStoredName' = currentStoredName]_vars

\* the request in flight failed with the AxiosError of a response
FailedResponse ==
  /\ apiError # Null /\ apiError.rejected
  /\ apiError.value.t = "AxiosError" /\ isAxiosErrorWithResponse(apiError.value)

\* the status of the failed response
FailedStatus == apiError.value.v["response"].v["status"].v

\* the request in flight failed with an AxiosError that has no response
NoResponse ==
  /\ apiError # Null /\ apiError.rejected
  /\ apiError.value.t = "AxiosError" /\ ~isAxiosErrorWithResponse(apiError.value)

\* the 401 response interceptor has run on the request in flight
PastUnauthorized == apiPc \in {"handled", "fulfilled", "rejected"}

\* C30: on an instance made with an auth service, logging enabled or not, a
\* failed response with status 401 has called authService.clearTokens()
\* exactly once before the caller's promise rejects, a failure with another
\* status or without response has not called it, and the caller's promise
\* is rejected with the error in every one of these cases.
C30_TokensClearedOn401Only ==
  (apiConfig # Null /\ apiConfig.authService /\ PastUnauthorized
     /\ (FailedResponse \/ NoResponse))
    => /\ clearTokensCalls =
            (IF FailedResponse /\ FailedStatus = 401 THEN 1 ELSE 0)
       /\ apiPc # "fulfilled"
       /\ apiOutcome = apiError

\* with logging enabled, a 401 has cleared the tokens once and is rejected
C30_Witness ==
  /\ apiPc = "rejected"
  /\ apiConfig.enableLogging /\ apiConfig.authService
  /\ FailedResponse /\ FailedStatus = 401
  /\ clearTokensCalls = 1
====
